---- MODULE Spec2Model ----
(***************************************************************************)
(* A model of the dynamic extensibility runtime of kota: the value bridge  *)
(* between serde_json values and Lua values, the Lua dynamic tool adapter, *)
(* the command registry and the tool registry.                             *)
(*                                                                         *)
(* Every value is a record of one fixed shape, so that values of different *)
(* kinds can sit in one set:                                               *)
(*   a serde_json::Value is [t, n, s, a, o]: t the variant, n the number   *)
(*     (a float is kept in halves: n = 3 is 1.5), s the string, a the      *)
(*     array, o the object as a set of [k, v] entries with unique k;       *)
(*   an mlua::Value is [t, n, s, e]: e the table as a set of [k, v]        *)
(*     entries with unique k and no nil v.                                 *)
(***************************************************************************)
EXTENDS Integers, Sequences, FiniteSets, TLC

VARIABLES
    \* value bridge, applied to one input
    src,        \* which input the run converts: "guest" or "doc"
    guest,      \* the mlua::Value at hand
    doc,        \* the serde_json::Value at hand
    host,       \* the result of lua_to_json, [st, v, msg]
    op,         \* the conversion applied so far
    \* Lua dynamic tool adapter
    tool,       \* the LuaDynTool: [name, description, parameters, lua_code]
    calls,      \* the calls made so far, each [args, res]
    lastLua,    \* the globals of the latest Lua state when it was dropped
    \* command registry
    commands,   \* CommandRegistry.commands: a set of [k, v] entries, k a
                \* name and v a CommandDef
    cmdLua,     \* the globals of CommandRegistry.lua
    cmdLog,     \* the execute calls made so far, each [name, args, res]
    \* tool registry
    tools,      \* ToolRegistry.tools: a set of [k, v] entries, k a name and
                \* v a capability [name, impl]
    regOrder,   \* the registered names, in the order they were registered
    invoked,    \* the capabilities call_json has run so far, oldest first
    lastOp,     \* the latest registry operation, its argument and its
                \* return value
    \* command-line parser, applied to one input
    input,      \* the input line, a sequence of characters
    parsed,     \* what parse_command_input returned for it, [st, name,
                \* args, msg], args a set of [k, v] entries
    \* tool manifest loader and config loader
    toolsFile,  \* the file .kota/tools/init.lua: [exists, script]
    loadedTools,    \* what LuaToolLoader::load_tools returned, [st, tools, msg]
    configFile,     \* the file .kota/config.lua: [exists, script]
    loadedConfig,   \* what KotaConfig::load returned, [st, config, msg]
    hostEnv,    \* the environment of the host process: a set of [k, v]
                \* entries, k the name of a variable that is set
    hostFiles,  \* the paths of the files in the working directory
    spawned,    \* the shell commands the host process has started
    \* plan manager and update_plan tool
    current_plan,   \* PlanManager.current_plan, shared by every clone:
                    \* [some, title, tasks, next_id]
    planPc,     \* where UpdatePlanTool::call stands: [at, success, found,
                \* args]; found is what the closure's call of the plan
                \* returned, which the closure drops
    planOut,    \* the latest call that returned: [args, res]
    \* skill manager
    skills,     \* SkillManager.skills: a set of [k, v] entries, k a name
                \* and v a Skill
    active_skill,   \* SkillManager.active_skill: an Option, the set of
                    \* none or one name
    skillDirs,  \* the names that have a directory under .kota/skills
    skillRet    \* the latest SkillManager operation: [op, name, st, msg]

bridgeVars == <<src, guest, doc, host, op>>
toolVars == <<tool, calls, lastLua>>
cmdVars == <<commands, cmdLua, cmdLog>>
regVars == <<tools, regOrder, invoked, lastOp>>
parseVars == <<input, parsed>>
loadVars ==
    <<toolsFile, loadedTools, configFile, loadedConfig, hostEnv, hostFiles,
      spawned>>

planVars == <<current_plan, planPc, planOut>>
skillVars == <<skills, active_skill, skillDirs, skillRet>>

vars ==
    <<bridgeVars, toolVars, cmdVars, regVars, parseVars, loadVars, planVars,
      skillVars>>

---------------------------------------------------------------------------
(* Bounds of the model.                                                    *)

MaxKeys == 3        \* most entries of an enumerated guest table
MaxArr == 2         \* longest enumerated document array
StackLimit == 6     \* native stack frames lua_to_json may use before the
                    \* host thread overflows its stack
MaxCalls == 2       \* most calls of one tool
MaxExec == 2        \* most executions of commands on one registry
MaxInvoked == 1     \* most capabilities run through one tool registry
MaxArgs == 3        \* most tokens after the command name in an input line
MaxRegs == 3        \* most register_tool calls of a manifest
MaxStmts == 2       \* most statements of a configuration file
MaxTasks == 2       \* most tasks of one plan

---------------------------------------------------------------------------
(* serde_json::Value                                                       *)

JNull == [t |-> "null", n |-> 0, s |-> "", a |-> <<>>, o |-> {}]
JBool(b) == [t |-> "bool", n |-> IF b THEN 1 ELSE 0, s |-> "", a |-> <<>>, o |-> {}]
JInt(i) == [t |-> "int", n |-> i, s |-> "", a |-> <<>>, o |-> {}]
JFloat(h) == [t |-> "float", n |-> h, s |-> "", a |-> <<>>, o |-> {}]
JStr(x) == [t |-> "string", n |-> 0, s |-> x, a |-> <<>>, o |-> {}]
JArr(xs) == [t |-> "array", n |-> 0, s |-> "", a |-> xs, o |-> {}]
JObj(es) == [t |-> "object", n |-> 0, s |-> "", a |-> <<>>, o |-> es]

(* mlua::Value                                                             *)

LNil == [t |-> "nil", n |-> 0, s |-> "", e |-> {}]
LBool(b) == [t |-> "boolean", n |-> IF b THEN 1 ELSE 0, s |-> "", e |-> {}]
LInt(i) == [t |-> "integer", n |-> i, s |-> "", e |-> {}]
\* a finite float, in halves
LNum(h) == [t |-> "number", n |-> h, s |-> "", e |-> {}]
\* a float that is NaN or an infinity: kind is "nan", "inf" or "-inf"
LNonFinite(kind) == [t |-> "number", n |-> 0, s |-> kind, e |-> {}]
LStr(x) == [t |-> "string", n |-> 0, s |-> x, e |-> {}]
\* a Lua string whose bytes are not UTF-8 (Lua strings are byte strings)
LBytes(x) == [t |-> "string", n |-> 1, s |-> x, e |-> {}]
LTable(es) == [t |-> "table", n |-> 0, s |-> "", e |-> es]
LFunction == [t |-> "function", n |-> 0, s |-> "", e |-> {}]
\* the Lua function that dumps to the bytecode code
LFunc(code) == [t |-> "function", n |-> 0, s |-> code, e |-> {}]
\* a reference back to the d-th enclosing table (1 = the table that holds
\* the entry): a Lua table is a reference, so a table can contain itself
LSelf(d) == [t |-> "self", n |-> d, s |-> "", e |-> {}]

Entry(key, val) == [k |-> key, v |-> val]

\* the keys of a table or object
Keys(es) == {x.k : x \in es}

\* mlua Table::get: the value stored under key, nil when there is none
TableGet(es, key) ==
    IF \E x \in es : x.k = key
    THEN (CHOOSE x \in es : x.k = key).v
    ELSE LNil

\* mlua Table::set: assigning nil removes the key, anything else replaces it
TableSet(es, key, val) ==
    IF val.t = "nil"
    THEN {x \in es : x.k # key}
    ELSE {x \in es : x.k # key} \cup {Entry(key, val)}

\* serde_json::Map::insert: the entry of an equal key is replaced
MapInsert(es, key, val) == {x \in es : x.k # key} \cup {Entry(key, val)}

---------------------------------------------------------------------------
(* i64::to_string                                                          *)

Digit(d) == <<"0", "1", "2", "3", "4", "5", "6", "7", "8", "9">>[d + 1]

RECURSIVE NatToString(_)
NatToString(i) ==
    IF i < 10 THEN Digit(i) ELSE NatToString(i \div 10) \o Digit(i % 10)

IntToString(i) == IF i < 0 THEN "-" \o NatToString(0 - i) ELSE NatToString(i)

---------------------------------------------------------------------------
(* Results of a conversion: Ok(v), Err(msg), or the host thread running   *)
(* out of stack inside the conversion.                                     *)

Ok(val) == [st |-> "ok", v |-> val, msg |-> ""]
Err(m) == [st |-> "err", v |-> JNull, msg |-> m]
Overflow == [st |-> "overflow", v |-> JNull, msg |-> ""]

---------------------------------------------------------------------------
(* dyn_tool.rs: json_to_lua                                                *)

RECURSIVE json_to_lua(_), ArrayToTable(_, _, _), ObjectToTable(_, _)

\* for (i, val) in arr.iter().enumerate() { table.set(i + 1, ...) }
ArrayToTable(arr, i, acc) ==
    IF i > Len(arr) THEN acc
    ELSE ArrayToTable(arr, i + 1, TableSet(acc, LInt(i), json_to_lua(arr[i])))

\* for (key, val) in obj.iter() { table.set(key.as_str(), ...) }
ObjectToTable(es, acc) ==
    IF es = {} THEN acc
    ELSE LET x == CHOOSE y \in es : TRUE
         IN ObjectToTable(es \ {x}, TableSet(acc, LStr(x.k), json_to_lua(x.v)))

\* the conversion that asks a Number for as_f64 first: every number a float
json_to_lua_FloatFirst(json) ==
    CASE json.t = "null" -> LNil
      [] json.t = "bool" -> LBool(json.n = 1)
      [] json.t = "int" -> LNum(2 * json.n)
      [] json.t = "float" -> LNum(json.n)
      [] json.t = "string" -> LStr(json.s)
      [] json.t = "array" -> LTable(ArrayToTable(json.a, 1, {}))
      [] json.t = "object" -> LTable(ObjectToTable(json.o, {}))

json_to_lua(json) ==
    CASE json.t = "null" -> LNil
      [] json.t = "bool" -> LBool(json.n = 1)
      [] json.t = "int" -> LInt(json.n)
      [] json.t = "float" -> LNum(json.n)
      [] json.t = "string" -> LStr(json.s)
      [] json.t = "array" -> LTable(ArrayToTable(json.a, 1, {}))
      [] json.t = "object" -> LTable(ObjectToTable(json.o, {}))

---------------------------------------------------------------------------
(* dyn_tool.rs: lua_to_json                                                *)

Utf8Error == "invalid utf-8 sequence"

\* the first loop over table.pairs(): every key is an Integer above zero
IsArrayKeys(es) == \A x \in es : x.k.t = "integer" /\ x.k.n > 0

\* max_index after the first loop
MaxIndex(es) ==
    IF es = {} THEN 0
    ELSE CHOOSE m \in {x.k.n : x \in es} : \A x \in es : x.k.n <= m

\* the check with the emptiness test left out: is_array alone
ArrayBranch_NoMaxCheck(es) == IsArrayKeys(es)

\* is_array && max_index > 0
ArrayBranch(es) == IsArrayKeys(es) /\ MaxIndex(es) > 0

\* the first element of a sequence of results that is not Ok
FirstFailure(rs) ==
    rs[CHOOSE i \in 1..Len(rs) :
          rs[i].st # "ok" /\ \A j \in 1..(i - 1) : rs[j].st = "ok"]

RECURSIVE lua_to_json_rec(_, _, _), PairsToObject(_, _, _, _)

\* the second loop over table.pairs(): string and integer keys are kept,
\* the others skipped; the first failure ends the conversion
PairsToObject(es, encl, depth, acc) ==
    IF es = {} THEN Ok(JObj(acc))
    ELSE LET x == CHOOSE y \in es : TRUE
             rest == es \ {x}
         IN IF x.k.t = "string" /\ x.k.n = 1 THEN Err(Utf8Error)
            ELSE IF x.k.t \notin {"string", "integer"}
            THEN PairsToObject(rest, encl, depth, acc)
            ELSE LET key_str == IF x.k.t = "string" THEN x.k.s
                                ELSE IntToString(x.k.n)
                     r == lua_to_json_rec(x.v, encl, depth)
                 IN IF r.st # "ok" THEN r
                    ELSE PairsToObject(rest, encl, depth,
                                       MapInsert(acc, key_str, r.v))

\* value: the Lua value; encl: the tables the value sits in, innermost
\* first; depth: the native frames in use, this call included
lua_to_json_rec(value, encl, depth) ==
    IF depth > StackLimit THEN Overflow
    ELSE CASE value.t = "nil" -> Ok(JNull)
           [] value.t = "boolean" -> Ok(JBool(value.n = 1))
           [] value.t = "integer" -> Ok(JInt(value.n))
           [] value.t = "number" ->
                \* serde_json::Number::from_f64 is None for NaN and infinities
                IF value.s = "" THEN Ok(JFloat(value.n)) ELSE Ok(JNull)
           [] value.t = "string" ->
                IF value.n = 1 THEN Err(Utf8Error) ELSE Ok(JStr(value.s))
           [] value.t = "self" ->
                lua_to_json_rec(encl[value.n],
                                SubSeq(encl, value.n + 1, Len(encl)), depth)
           [] value.t = "table" ->
                LET inner == <<value>> \o encl
                IN IF ArrayBranch(value.e)
                   THEN LET rs == [i \in 1..MaxIndex(value.e) |->
                                     lua_to_json_rec(TableGet(value.e, LInt(i)),
                                                     inner, depth + 1)]
                        IN IF \E i \in 1..Len(rs) : rs[i].st # "ok"
                           THEN FirstFailure(rs)
                           ELSE Ok(JArr([i \in 1..Len(rs) |-> rs[i].v]))
                   ELSE PairsToObject(value.e, inner, depth + 1, {})
           [] OTHER -> Ok(JNull)

lua_to_json(value) == lua_to_json_rec(value, <<>>, 1)

---------------------------------------------------------------------------
(* serde_json::to_string and serde_json::from_str                          *)

\* the keys of the model's objects in byte order, the order a serde_json
\* Map is written in
SortedKeys == <<"1", "2", "4", "a", "b", "count", "me", "result", "value">>

KeyRank(key) == CHOOSE i \in 1..Len(SortedKeys) : SortedKeys[i] = key

\* a finite float in halves, written as serde_json writes an f64
FloatToString(h) ==
    LET m == IF h < 0 THEN 0 - h ELSE h
    IN (IF h < 0 THEN "-" ELSE "") \o NatToString(m \div 2)
       \o (IF m % 2 = 0 THEN ".0" ELSE ".5")

RECURSIVE to_string(_), ArrayToString(_, _), ObjectToString(_)

\* the elements from the i-th on, separated by commas
ArrayToString(arr, i) ==
    IF i > Len(arr) THEN ""
    ELSE to_string(arr[i])
         \o (IF i < Len(arr) THEN "," ELSE "")
         \o ArrayToString(arr, i + 1)

\* the entries in key order, separated by commas
ObjectToString(es) ==
    IF es = {} THEN ""
    ELSE LET x == CHOOSE y \in es : \A z \in es : KeyRank(y.k) <= KeyRank(z.k)
         IN "\"" \o x.k \o "\":" \o to_string(x.v)
            \o (IF es = {x} THEN "" ELSE ",")
            \o ObjectToString(es \ {x})

\* the strings of the model need no escape sequence
to_string(json) ==
    CASE json.t = "null" -> "null"
      [] json.t = "bool" -> IF json.n = 1 THEN "true" ELSE "false"
      [] json.t = "int" -> IntToString(json.n)
      [] json.t = "float" -> FloatToString(json.n)
      [] json.t = "string" -> "\"" \o json.s \o "\""
      [] json.t = "array" -> "[" \o ArrayToString(json.a, 1) \o "]"
      [] json.t = "object" -> "{" \o ObjectToString(json.o) \o "}"

\* the documents a call's argument text is written from
ArgDocs ==
    {JObj({Entry("a", JInt(5)), Entry("b", JInt(3))}),
     JObj({Entry("a", JFloat(3)), Entry("b", JInt(3))}),
     JObj({Entry("a", JStr("5")), Entry("b", JInt(3))}),
     JObj({Entry("a", JInt(5))}),
     JObj({Entry("a", JInt(2)), Entry("b", JInt(2))}),
     JObj({Entry("value", JInt(0))}),
     JObj({Entry("value", JInt(4))}),
     JArr(<<JInt(1), JNull>>),
     JNull}

\* a text that is no JSON document
MalformedArgs == "{oops"

ArgStrings == {to_string(d) : d \in ArgDocs} \cup {MalformedArgs}

JsonSyntaxError == "key must be a string at line 1 column 2"

\* from_str reads back the document a text was written from
from_str(text) ==
    IF \E d \in ArgDocs : to_string(d) = text
    THEN Ok(CHOOSE d \in ArgDocs : to_string(d) = text)
    ELSE Err(JsonSyntaxError)

---------------------------------------------------------------------------
(* The Lua functions of the model and what a Lua state does with them.     *)
(* The globals of a Lua state are a table; a call returns [st, v, msg, g]: *)
(* the value returned or the message of the error raised, and the globals  *)
(* the call leaves behind.                                                 *)

GOk(val, g) == [st |-> "ok", v |-> val, msg |-> "", g |-> g]
GErr(m, g) == [st |-> "err", v |-> LNil, msg |-> m, g |-> g]

\* the name Lua's error messages give a value's type
TypeName(val) ==
    CASE val.t \in {"integer", "number"} -> "number"
      [] val.t = "self" -> "table"
      [] OTHER -> val.t

\* val[name]: a table is looked up, a string is looked up in the string
\* library (where the names of the model are absent), anything else raises
LuaIndex(val, name) ==
    CASE val.t = "table" -> GOk(TableGet(val.e, LStr(name)), {})
      [] val.t = "string" -> GOk(LNil, {})
      [] OTHER ->
            GErr("attempt to index a " \o TypeName(val) \o " value", {})

\* the number a string converts to in arithmetic, nil if it is no numeral
StringToNumber(x) ==
    CASE x = "5" -> LInt(5)
      [] x = "3" -> LInt(3)
      [] OTHER -> LNil

ToNumber(val) ==
    CASE val.t \in {"integer", "number"} -> val
      [] val.t = "string" -> StringToNumber(val.s)
      [] OTHER -> LNil

\* a number in halves
Halves(val) == IF val.t = "integer" THEN 2 * val.n ELSE val.n

\* x + y: integer with integer is an integer, otherwise a float
LuaAdd(x, y) ==
    LET nx == ToNumber(x)
        ny == ToNumber(y)
    IN IF nx.t = "nil"
       THEN GErr("attempt to perform arithmetic on a " \o TypeName(x) \o " value", {})
       ELSE IF ny.t = "nil"
       THEN GErr("attempt to perform arithmetic on a " \o TypeName(y) \o " value", {})
       ELSE IF nx.t = "integer" /\ ny.t = "integer"
       THEN GOk(LInt(nx.n + ny.n), {})
       ELSE GOk(LNum(Halves(nx) + Halves(ny)), {})

\* x / y is always a float; the model divides only where the quotient is a
\* whole number of halves, and never by zero
LuaDiv(x, y) ==
    LET nx == ToNumber(x)
        ny == ToNumber(y)
    IN IF nx.t = "nil"
       THEN GErr("attempt to perform arithmetic on a " \o TypeName(x) \o " value", {})
       ELSE IF ny.t = "nil"
       THEN GErr("attempt to perform arithmetic on a " \o TypeName(y) \o " value", {})
       ELSE GOk(LNum((2 * Halves(nx)) \div Halves(ny)), {})

\* the text a number becomes in a concatenation
NumberToString(val) ==
    IF val.t = "integer" THEN IntToString(val.n) ELSE FloatToString(val.n)

\* x .. y: strings and numbers are joined, anything else raises
LuaConcat(x, y) ==
    LET text(val) == IF val.t = "string" THEN val.s ELSE NumberToString(val)
    IN IF x.t \notin {"string", "integer", "number"}
       THEN GErr("attempt to concatenate a " \o TypeName(x) \o " value", {})
       ELSE IF y.t \notin {"string", "integer", "number"}
       THEN GErr("attempt to concatenate a " \o TypeName(y) \o " value", {})
       ELSE GOk(LStr(text(x) \o text(y)), {})

\* x or y
LuaOr(x, y) == IF x.t = "nil" \/ x = LBool(FALSE) THEN y ELSE x

\* x == 0
IsZero(val) == val.t \in {"integer", "number"} /\ val.s = "" /\ val.n = 0

\* the bytecode of the model, by the function it was dumped from
Bytecode ==
    {"add", "echo", "counter", "divide", "cyclic", "sparse", "bytes", "nan"}

\* the bytecode of the commands of the model
CommandCode ==
    {"run_tests", "visits", "nothing", "answer", "fail", "count_args"}

\* bytes that are neither Lua source nor a Lua binary chunk
GarbageCode == "garbage"

LuaSyntaxError == "syntax error: unexpected symbol"

\* lua.load(bytes).into_function()
LuaLoad(code) ==
    IF code \in Bytecode \cup CommandCode
    THEN [st |-> "ok", code |-> code, msg |-> ""]
    ELSE [st |-> "err", code |-> code, msg |-> LuaSyntaxError]

\* func.call(args) in a Lua state whose globals are g
GuestCall(code, args, g) ==
    CASE code = "add" ->
            \* return { result = args.a + args.b }
            LET a == LuaIndex(args, "a")
                b == LuaIndex(args, "b")
                sum == LuaAdd(a.v, b.v)
            IN IF a.st # "ok" THEN GErr(a.msg, g)
               ELSE IF sum.st # "ok" THEN GErr(sum.msg, g)
               ELSE GOk(LTable(TableSet({}, LStr("result"), sum.v)), g)
      [] code = "echo" ->
            \* return args
            GOk(args, g)
      [] code = "counter" ->
            \* count = (count or 0) + 1; return { count = count }
            LET old == TableGet(g, LStr("count"))
                new == LuaAdd(IF old.t = "nil" THEN LInt(0) ELSE old, LInt(1))
            IN GOk(LTable(TableSet({}, LStr("count"), new.v)),
                   TableSet(g, LStr("count"), new.v))
      [] code = "divide" ->
            \* if args.value == 0 then error("Value cannot be zero") end
            \* return { result = 100 / args.value }
            LET value == LuaIndex(args, "value")
                q == LuaDiv(LInt(100), value.v)
            IN IF value.st # "ok" THEN GErr(value.msg, g)
               ELSE IF IsZero(value.v) THEN GErr("Value cannot be zero", g)
               ELSE IF q.st # "ok" THEN GErr(q.msg, g)
               ELSE GOk(LTable(TableSet({}, LStr("result"), q.v)), g)
      [] code = "cyclic" ->
            \* local t = {}; t.me = t; return t
            GOk(LTable({Entry(LStr("me"), LSelf(1))}), g)
      [] code = "sparse" ->
            \* return { [1] = "a", [2] = "b", [4] = "d" }
            GOk(LTable({Entry(LInt(1), LStr("a")), Entry(LInt(2), LStr("b")),
                        Entry(LInt(4), LStr("d"))}), g)
      [] code = "bytes" ->
            \* return "\xff"
            GOk(LBytes("ff"), g)
      [] code = "nan" ->
            \* return 0/0
            GOk(LNonFinite("nan"), g)
      [] code = "run_tests" ->
            \* local file = args.file or "current file"
            \* return "run tests for " .. file
            LET file == LuaIndex(args, "file")
                text == LuaConcat(LStr("run tests for "),
                                  LuaOr(file.v, LStr("current file")))
            IN IF file.st # "ok" THEN GErr(file.msg, g)
               ELSE IF text.st # "ok" THEN GErr(text.msg, g)
               ELSE GOk(text.v, g)
      [] code = "visits" ->
            \* visits = (visits or 0) + 1; return "visit " .. visits
            LET new == LuaAdd(LuaOr(TableGet(g, LStr("visits")), LInt(0)), LInt(1))
                text == LuaConcat(LStr("visit "), new.v)
            IN GOk(text.v, TableSet(g, LStr("visits"), new.v))
      [] code = "nothing" ->
            \* function(args) end
            GOk(LNil, g)
      [] code = "answer" ->
            \* return 42
            GOk(LInt(42), g)
      [] code = "fail" ->
            \* error("no such file")
            GErr("no such file", g)
      [] code = "count_args" ->
            \* local n = 0; for _ in pairs(args) do n = n + 1 end; return n
            IF args.t # "table"
            THEN GErr("bad argument #1 to 'for iterator' (table expected, got "
                      \o TypeName(args) \o ")", g)
            ELSE GOk(LInt(Cardinality(args.e)), g)

---------------------------------------------------------------------------
(* dyn_tool.rs: LuaDynTool                                                 *)

\* LuaDynTool::new
LuaDynTool_new(name, description, parameters, lua_code) ==
    [name |-> name, description |-> description, parameters |-> parameters,
     lua_code |-> lua_code]

\* the tools of the model, one for each bytecode and one whose bytes are
\* no chunk at all
ToolFor(code) ==
    LuaDynTool_new(code, "a Lua tool", JObj({Entry("type", JStr("object"))}), code)

DynTools == {ToolFor(code) : code \in Bytecode \cup {GarbageCode}}

\* the state a call would reuse if it kept its Lua state between calls
Lua_kept == lastLua

\* Lua::new(): a state whose globals hold the standard library and nothing
\* a script has written
Lua_new == {}

\* the outcomes of LuaDynTool::call: Ok(String), Err(ToolCallError) with the
\* message "<prefix>: <cause>", or the host thread overflowing its stack.
\* stages lists the stages that ran, g is the globals of the Lua state when
\* the call ends
CallOk(out, stages, g) ==
    [st |-> "ok", out |-> out, prefix |-> "", cause |-> "",
     stages |-> stages, g |-> g]
CallErr(prefix, cause, stages, g) ==
    [st |-> "err", out |-> "", prefix |-> prefix, cause |-> cause,
     stages |-> stages, g |-> g]
CallAbort(stages, g) ==
    [st |-> "abort", out |-> "", prefix |-> "", cause |-> "",
     stages |-> stages, g |-> g]

\* mlua renders a guest error as a runtime error with the guest's message
RuntimeError(m) == "runtime error: " \o m

\* LuaDynTool::call on the tool t with the argument text args, in the Lua
\* state lua: each stage ends the call with its own message when it fails.
\* json_to_lua and serde_json::to_string of a Value fail only when memory
\* runs out, which the model leaves out
LuaDynTool_call(t, args, lua) ==
    LET func == LuaLoad(t.lua_code)
        json_args == from_str(args)
        lua_args == json_to_lua(json_args.v)
        result == GuestCall(func.code, lua_args, lua)
        json_result == lua_to_json(result.v)
    IN IF func.st # "ok"
       THEN CallErr("Failed to load Lua bytecode", func.msg, <<"load">>, lua)
       ELSE IF json_args.st # "ok"
       THEN CallErr("Failed to parse args", json_args.msg, <<"load", "parse">>, lua)
       ELSE IF result.st # "ok"
       THEN CallErr("Lua function call failed", RuntimeError(result.msg),
                    <<"load", "parse", "convert-in", "call">>, result.g)
       ELSE IF json_result.st = "overflow"
       THEN CallAbort(<<"load", "parse", "convert-in", "call", "convert-out">>,
                      result.g)
       ELSE IF json_result.st # "ok"
       THEN CallErr("Failed to convert Lua result to JSON", json_result.msg,
                    <<"load", "parse", "convert-in", "call", "convert-out">>,
                    result.g)
       ELSE CallOk(to_string(json_result.v),
                   <<"load", "parse", "convert-in", "call", "convert-out",
                     "serialize">>, result.g)

\* the adapter at rest, in the runs of the other components
ToolIdle == tool = ToolFor("echo") /\ calls = <<>> /\ lastLua = {}

\* the host process is gone once a call has overflowed the stack
Aborted == calls # <<>> /\ calls[Len(calls)].res.st = "abort"

---------------------------------------------------------------------------
(* command_registry.rs: CommandRegistry                                    *)

\* CommandDef::String(template) and CommandDef::Function(bytecode)
CommandDef_String(template) == [kind |-> "String", text |-> template]
CommandDef_Function(bytecode) == [kind |-> "Function", text |-> bytecode]

\* HashMap::get on the commands: the entries under the name, none or one
CommandsGet(cmds, name) == {x.v : x \in {y \in cmds : y.k = name}}

\* the globals of the Lua state CommandRegistry::new makes: the standard
\* library and the helper _format_args
CommandRegistry_lua == {Entry(LStr("_format_args"), LFunction)}

\* CommandRegistry::new(config): [lua, commands]
CommandRegistry_new(config) ==
    [lua |-> CommandRegistry_lua, commands |-> config.commands]

\* registry.has_command(name)
CommandRegistry_has_command(cmds, name) == \E x \in cmds : x.k = name

\* the commands of the model's configuration
ConfigCommands ==
    {Entry("fix", CommandDef_String("analyze and fix the current file")),
     Entry("greet", CommandDef_String("say hello to $1")),
     Entry("count", CommandDef_Function("count_args")),
     Entry("test", CommandDef_Function("run_tests")),
     Entry("visits", CommandDef_Function("visits")),
     Entry("nothing", CommandDef_Function("nothing")),
     Entry("answer", CommandDef_Function("answer")),
     Entry("fail", CommandDef_Function("fail")),
     Entry("broken", CommandDef_Function(GarbageCode))}

\* the names the model executes: those of the configuration and one more
ExecNames == Keys(ConfigCommands) \cup {"missing"}

\* the argument maps the model executes with
ArgMaps ==
    {{}, {Entry("file", "main.rs")}, {Entry("1", "x")},
     {Entry("file", "lib.rs"), Entry("1", "x")}}

\* for (key, value) in args { lua_args.set(key, value) }
ArgsTable(args) == LTable({Entry(LStr(x.k), LStr(x.v)) : x \in args})

\* format!("{:?}", value) of an mlua::Value
DebugText(val) ==
    CASE val.t = "boolean" ->
            "Boolean(" \o (IF val.n = 1 THEN "true" ELSE "false") \o ")"
      [] val.t = "integer" -> "Integer(" \o IntToString(val.n) \o ")"
      [] val.t = "number" -> "Number(" \o FloatToString(val.n) \o ")"
      [] val.t = "table" -> "Table"
      [] val.t = "function" -> "Function"
      [] OTHER -> val.t

\* the outcomes of CommandRegistry::execute, with the globals g the call
\* leaves in the registry's Lua state
ExecOk(out, g) == [st |-> "ok", out |-> out, msg |-> "", g |-> g]
ExecErr(m, g) == [st |-> "err", out |-> "", msg |-> m, g |-> g]

\* the match on the result that renders nil as its debug text too
CoerceResult_NilAsDebug(result) ==
    IF result.v.t = "string"
    THEN IF result.v.n = 1 THEN ExecErr(Utf8Error, result.g)
         ELSE ExecOk(result.v.s, result.g)
    ELSE IF result.v.t = "nil" THEN ExecOk("Nil", result.g)
    ELSE ExecOk(DebugText(result.v), result.g)

\* match result { String(s) => s.to_str()?, Nil => String::new(),
\* _ => format!("{:?}", result) }
CoerceResult(result) ==
    IF result.v.t = "string"
    THEN IF result.v.n = 1 THEN ExecErr(Utf8Error, result.g)
         ELSE ExecOk(result.v.s, result.g)
    ELSE IF result.v.t = "nil" THEN ExecOk("", result.g)
    ELSE ExecOk(DebugText(result.v), result.g)

\* the CommandDef::Function arm: load the bytecode, build the table, call
ExecuteFunction(bytecode, lua, args) ==
    LET func == LuaLoad(bytecode)
        result == GuestCall(func.code, ArgsTable(args), lua)
    IN IF func.st # "ok" THEN ExecErr(func.msg, lua)
       ELSE IF result.st # "ok" THEN ExecErr(RuntimeError(result.msg), result.g)
       ELSE CoerceResult(result)

\* execute that appends an argument to a template
CommandRegistry_execute_Substituting(cmds, lua, name, args) ==
    LET found == CommandsGet(cmds, name)
        cmd_def == CHOOSE d \in found : TRUE
    IN IF found = {}
       THEN ExecErr("Command '" \o name \o "' not found", lua)
       ELSE IF cmd_def.kind = "String"
       THEN IF args = {} THEN ExecOk(cmd_def.text, lua)
            ELSE ExecOk(cmd_def.text \o " " \o (CHOOSE x \in args : TRUE).v, lua)
       ELSE ExecuteFunction(cmd_def.text, lua, args)

\* CommandRegistry::execute in a registry with the commands cmds whose Lua
\* state has the globals lua
CommandRegistry_execute(cmds, lua, name, args) ==
    LET found == CommandsGet(cmds, name)
        cmd_def == CHOOSE d \in found : TRUE
    IN IF found = {}
       THEN ExecErr("Command '" \o name \o "' not found", lua)
       ELSE IF cmd_def.kind = "String" THEN ExecOk(cmd_def.text, lua)
       ELSE ExecuteFunction(cmd_def.text, lua, args)

\* the registry at rest, in the runs of the other components
CmdIdle == commands = {} /\ cmdLua = {} /\ cmdLog = <<>>

---------------------------------------------------------------------------
(* tool_registry.rs: ToolRegistry                                          *)

\* a capability: an Arc<dyn KotaTool> with its name; impl tells apart two
\* tools of one name
KotaTool(name, impl) == [name |-> name, impl |-> impl]

KotaTools ==
    {KotaTool("read_file", 1), KotaTool("read_file", 2),
     KotaTool("write_file", 1), KotaTool("bash", 1)}

ToolNames == {t.name : t \in KotaTools}

\* the names the model looks up: those of the tools and one no tool has
LookupNames == ToolNames \cup {"missing"}

\* HashMap::insert that keeps the entry a key already has
HashMap_insert_KeepFirst(m, key, val) ==
    IF \E x \in m : x.k = key THEN m ELSE m \cup {Entry(key, val)}

\* HashMap::insert: the entry of an equal key is replaced
HashMap_insert(m, key, val) == {x \in m : x.k # key} \cup {Entry(key, val)}

\* HashMap::remove that keeps the entry of the key and drops the others
HashMap_remove_Inverted(m, key) == {x \in m : x.k = key}

\* HashMap::remove
HashMap_remove(m, key) == {x \in m : x.k # key}

\* HashMap::get as an Option: the values under the key, none or one
HashMap_get(m, key) == {x.v : x \in {y \in m : y.k = key}}

\* the orders in which a HashMap may hand out the elements of S
Orders(S) ==
    {f \in [1..Cardinality(S) -> S] :
        \A i, j \in 1..Cardinality(S) : i # j => f[i] # f[j]}

\* the return value of a registry operation: found is an Option of a
\* capability, names a list of names
Ret(opname, name, found, names, st, m) ==
    [op |-> opname, name |-> name, found |-> found, names |-> names,
     st |-> st, msg |-> m]

\* ToolRegistry::get_tool
ToolRegistry_get_tool(m, name) == HashMap_get(m, name)

\* ToolRegistry::has_tool
ToolRegistry_has_tool(m, name) == \E x \in m : x.k = name

\* ToolRegistry::len
ToolRegistry_len(m) == Cardinality(m)

\* ToolRegistry::is_empty
ToolRegistry_is_empty(m) == m = {}

\* ToolRegistry::execute that answers an unknown name with a default value
ToolRegistry_execute_Default(m, name) ==
    LET found == ToolRegistry_get_tool(m, name)
    IN IF found = {} THEN Ret("execute", name, {}, <<>>, "ok", "")
       ELSE Ret("execute", name, found, <<>>, "ok", "")

\* ToolRegistry::execute: the capability to run, if any, and the result
ToolRegistry_execute(m, name) ==
    LET found == ToolRegistry_get_tool(m, name)
    IN IF found = {}
       THEN Ret("execute", name, {}, <<>>, "err", "Tool not found: " \o name)
       ELSE Ret("execute", name, found, <<>>, "ok", "")

\* the registry at rest, in the runs of the other components
RegIdle ==
    /\ tools = {}
    /\ regOrder = <<>>
    /\ invoked = <<>>
    /\ lastOp = Ret("new", "", {}, <<>>, "ok", "")

---------------------------------------------------------------------------
(* command_registry.rs: parse_command_input                                *)
(* A &str is a sequence of characters, each a string of one character; a   *)
(* String made from it is the characters joined.                           *)

\* the characters char::is_whitespace holds of, among those of the model
Whitespace == {" ", "\t"}

\* str::to_string of a slice: the characters joined into one string
RECURSIVE Text(_)
Text(chars) ==
    IF chars = <<>> THEN "" ELSE chars[1] \o Text(Tail(chars))

\* the split that cuts at every single space and keeps the empty pieces,
\* as str::split(' ') does
RECURSIVE split_whitespace_OnSpace(_, _, _, _)
split_whitespace_OnSpace(chars, i, cur, acc) ==
    IF i > Len(chars) THEN Append(acc, cur)
    ELSE IF chars[i] = " "
    THEN split_whitespace_OnSpace(chars, i + 1, <<>>, Append(acc, cur))
    ELSE split_whitespace_OnSpace(chars, i + 1, Append(cur, chars[i]), acc)

\* str::split_whitespace, from the i-th character on: cur is the piece being
\* read, acc the pieces read; the pieces are the runs of characters that are
\* not white space, and none is empty
RECURSIVE split_whitespace(_, _, _, _)
split_whitespace(chars, i, cur, acc) ==
    IF i > Len(chars) THEN (IF cur = <<>> THEN acc ELSE Append(acc, cur))
    ELSE IF chars[i] \in Whitespace
    THEN split_whitespace(chars, i + 1, <<>>,
                          IF cur = <<>> THEN acc ELSE Append(acc, cur))
    ELSE split_whitespace(chars, i + 1, Append(cur, chars[i]), acc)

\* Option<(&str, &str)>: None, or Some of the two sides of a delimiter
None == [some |-> FALSE, key |-> <<>>, value |-> <<>>]
Some(key, value) == [some |-> TRUE, key |-> key, value |-> value]

\* the split at the last '=' of the piece, as str::rsplit_once does
split_once_Last(part) ==
    IF \E i \in 1..Len(part) : part[i] = "="
    THEN LET i == CHOOSE j \in 1..Len(part) :
                     part[j] = "=" /\ \A m \in (j + 1)..Len(part) : part[m] # "="
         IN Some(SubSeq(part, 1, i - 1), SubSeq(part, i + 1, Len(part)))
    ELSE None

\* part.split_once('='): the split at the first '=' of the piece
split_once(part) ==
    IF \E i \in 1..Len(part) : part[i] = "="
    THEN LET i == CHOOSE j \in 1..Len(part) :
                     part[j] = "=" /\ \A m \in 1..(j - 1) : part[m] # "="
         IN Some(SubSeq(part, 1, i - 1), SubSeq(part, i + 1, Len(part)))
    ELSE None

\* the outcomes of parse_command_input
ParseOk(name, args) == [st |-> "ok", name |-> name, args |-> args, msg |-> ""]
ParseErr(m) == [st |-> "err", name |-> "", args |-> {}, msg |-> m]
\* no call made yet
NotParsed == [st |-> "none", name |-> "", args |-> {}, msg |-> ""]

\* for part in parts.iter().skip(1), from the i-th piece on, with the args
\* and the positional_index the earlier pieces left
RECURSIVE ParseParts(_, _, _, _)
ParseParts(parts, i, args, positional_index) ==
    IF i > Len(parts) THEN args
    ELSE LET kv == split_once(parts[i])
         IN IF kv.some
            THEN ParseParts(parts, i + 1,
                            HashMap_insert(args, Text(kv.key), Text(kv.value)),
                            positional_index)
            ELSE ParseParts(parts, i + 1,
                            HashMap_insert(args, IntToString(positional_index),
                                           Text(parts[i])),
                            positional_index + 1)

parse_command_input(chars) ==
    LET parts == split_whitespace(chars, 1, <<>>, <<>>)
    IN IF parts = <<>> THEN ParseErr("Empty command")
       ELSE ParseOk(Text(parts[1]), ParseParts(parts, 2, {}, 1))

\* the parser at rest, in the runs of the other components
ParseIdle == input = <<>> /\ parsed = NotParsed

---------------------------------------------------------------------------
(* dyn_tools_loader/mod.rs: lua_table_to_json and lua_value_to_json        *)

RECURSIVE lua_value_to_json_rec(_, _, _), lua_table_to_json_rec(_, _, _),
          TablePairsToMap(_, _, _, _)

\* the loop of lua_table_to_json over table.pairs(): string and integer
\* keys are kept, the others skipped; the first failure ends the conversion
TablePairsToMap(es, encl, depth, map) ==
    IF es = {} THEN Ok(JObj(map))
    ELSE LET x == CHOOSE y \in es : TRUE
             rest == es \ {x}
         IN IF x.k.t = "string" /\ x.k.n = 1 THEN Err(Utf8Error)
            ELSE IF x.k.t \notin {"string", "integer"}
            THEN TablePairsToMap(rest, encl, depth, map)
            ELSE LET key_str == IF x.k.t = "string" THEN x.k.s
                                ELSE IntToString(x.k.n)
                     json_value == lua_value_to_json_rec(x.v, encl, depth)
                 IN IF json_value.st # "ok" THEN json_value
                    ELSE TablePairsToMap(rest, encl, depth,
                                         MapInsert(map, key_str, json_value.v))

\* table: the Lua table; encl: the tables it sits in, innermost first;
\* depth: the native frames in use, this call included
lua_table_to_json_rec(table, encl, depth) ==
    IF depth > StackLimit THEN Overflow
    ELSE TablePairsToMap(table.e, <<table>> \o encl, depth + 1, {})

lua_value_to_json_rec(value, encl, depth) ==
    IF depth > StackLimit THEN Overflow
    ELSE CASE value.t = "nil" -> Ok(JNull)
           [] value.t = "boolean" -> Ok(JBool(value.n = 1))
           [] value.t = "integer" -> Ok(JInt(value.n))
           [] value.t = "number" ->
                IF value.s = "" THEN Ok(JFloat(value.n)) ELSE Ok(JNull)
           [] value.t = "string" ->
                IF value.n = 1 THEN Err(Utf8Error) ELSE Ok(JStr(value.s))
           [] value.t = "self" ->
                lua_value_to_json_rec(encl[value.n],
                                      SubSeq(encl, value.n + 1, Len(encl)), depth)
           [] value.t = "table" ->
                IF ArrayBranch(value.e)
                THEN LET rs == [i \in 1..MaxIndex(value.e) |->
                                  lua_value_to_json_rec(TableGet(value.e, LInt(i)),
                                                        <<value>> \o encl, depth + 1)]
                     IN IF \E i \in 1..Len(rs) : rs[i].st # "ok"
                        THEN FirstFailure(rs)
                        ELSE Ok(JArr([i \in 1..Len(rs) |-> rs[i].v]))
                ELSE lua_table_to_json_rec(value, encl, depth + 1)
           [] OTHER -> Ok(JNull)

lua_table_to_json(table) == lua_table_to_json_rec(table, <<>>, 1)

---------------------------------------------------------------------------
(* mlua's conversions of a Lua value to the Rust type a get::<T> asks for  *)

FromLuaOk(x) == [st |-> "ok", x |-> x, msg |-> ""]
FromLuaErr(val, to) ==
    [st |-> "err", x |-> "", msg |-> "error converting Lua " \o TypeName(val) \o " to " \o to]

\* String: a Lua string that is UTF-8, or a number, which Lua coerces
FromLua_String(val) ==
    CASE val.t = "string" ->
            IF val.n = 1 THEN [st |-> "err", x |-> "", msg |-> Utf8Error]
            ELSE FromLuaOk(val.s)
      [] val.t \in {"integer", "number"} /\ val.s = "" ->
            FromLuaOk(NumberToString(val))
      [] OTHER -> FromLuaErr(val, "String")

\* LuaTable
FromLua_Table(val) ==
    IF val.t = "table" THEN FromLuaOk(val) ELSE FromLuaErr(val, "table")

\* LuaFunction
FromLua_Function(val) ==
    IF val.t = "function" THEN FromLuaOk(val) ELSE FromLuaErr(val, "function")

---------------------------------------------------------------------------
(* dyn_tools_loader/mod.rs: LuaToolLoader::load_tools                      *)
(* A script file is the sequence of its statements. The manifest's are     *)
(* calls of kota.register_tool, the configuration's calls of kota.setup;   *)
(* either may hold a text that does not compile.                           *)

RegisterCall(tool_def) == [kind |-> "register_tool", arg |-> tool_def]
SetupCall(args) == [kind |-> "setup", arg |-> args]
SyntaxFault == [kind |-> "syntax", arg |-> LNil]

\* a path that does not exist, and a file with its content
FileAbsent == [exists |-> FALSE, script |-> <<>>]
File(script) == [exists |-> TRUE, script |-> script]

\* lua.load(&content).exec(): a chunk compiles as a whole before any of it
\* runs, so a text that does not compile anywhere in the file fails the file
Compiles(script) == \A i \in 1..Len(script) : script[i].kind # "syntax"

\* _kota_tools when the manifest has run: table.insert appends the argument
\* of every kota.register_tool call
KotaToolsTable(script) ==
    LET regs == SelectSeq(script, LAMBDA st : st.kind = "register_tool")
    IN [i \in 1..Len(regs) |-> regs[i].arg]

\* the outcomes of load_tools: Ok(Vec<LuaDynTool>), Err, or the host thread
\* overflowing its stack in lua_table_to_json
LoadOk(ts) == [st |-> "ok", tools |-> ts, msg |-> ""]
LoadErr(m) == [st |-> "err", tools |-> <<>>, msg |-> m]
LoadAbort == [st |-> "abort", tools |-> <<>>, msg |-> ""]
\* no call made yet
NotLoaded == [st |-> "none", tools |-> <<>>, msg |-> ""]

\* for pair in tools_table.pairs::<LuaValue, LuaTable>(), from the i-th
\* element on: every `?` returns from load_tools with the error
RECURSIVE ExtractTools(_, _, _)
ExtractTools(tools_table, i, ts) ==
    IF i > Len(tools_table) THEN LoadOk(ts)
    ELSE LET tool_def == FromLua_Table(tools_table[i])
             name == FromLua_String(TableGet(tool_def.x.e, LStr("name")))
             description ==
                 FromLua_String(TableGet(tool_def.x.e, LStr("description")))
             parameters ==
                 FromLua_Table(TableGet(tool_def.x.e, LStr("parameters")))
             handler == FromLua_Function(TableGet(tool_def.x.e, LStr("entry")))
             params_json == lua_table_to_json(parameters.x)
             bytecode == handler.x.s
         IN IF tool_def.st # "ok" THEN LoadErr(tool_def.msg)
            ELSE IF name.st # "ok" THEN LoadErr(name.msg)
            ELSE IF description.st # "ok" THEN LoadErr(description.msg)
            ELSE IF parameters.st # "ok" THEN LoadErr(parameters.msg)
            ELSE IF handler.st # "ok" THEN LoadErr(handler.msg)
            ELSE IF params_json.st = "overflow" THEN LoadAbort
            ELSE IF params_json.st # "ok" THEN LoadErr(params_json.msg)
            ELSE ExtractTools(tools_table, i + 1,
                              Append(ts, LuaDynTool_new(name.x, description.x,
                                                        params_json.v, bytecode)))

\* load_tools that takes a missing manifest for an error
LuaToolLoader_load_tools_MissingIsError(file) ==
    IF ~file.exists THEN LoadErr("No such file or directory (os error 2)")
    ELSE IF ~Compiles(file.script) THEN LoadErr(LuaSyntaxError)
    ELSE ExtractTools(KotaToolsTable(file.script), 1, <<>>)

\* LuaToolLoader::load_tools, file being .kota/tools/init.lua
LuaToolLoader_load_tools(file) ==
    IF ~file.exists THEN LoadOk(<<>>)
    ELSE IF ~Compiles(file.script) THEN LoadErr(LuaSyntaxError)
    ELSE ExtractTools(KotaToolsTable(file.script), 1, <<>>)

---------------------------------------------------------------------------
(* config.rs: KotaConfig                                                   *)

\* an f64 of the configuration, in tenths; kind is "" for a finite one
F64(tenths, kind) == [n |-> tenths, s |-> kind]

\* Option<f64>
NoF64 == [some |-> FALSE, f |-> F64(0, "")]
SomeF64(f) == [some |-> TRUE, f |-> f]

\* f64: a Lua number, or a string Lua coerces to one
FromLua_f64(val) ==
    LET num == ToNumber(val)
    IN IF num.t = "nil" THEN FromLuaErr(val, "f64")
       ELSE FromLuaOk(F64(5 * Halves(num), num.s))

\* KotaConfig::default(); commands is the field CommandRegistry::new reads
\* and the tests insert into, a HashMap<String, CommandDef> with nothing
\* in it
KotaConfig_default ==
    [model |-> "gpt-4o",
     api_key |-> "",
     api_base |-> "https://api.openai.com/v1",
     temperature |-> SomeF64(F64(7, "")),
     enabled_tools |-> <<>>,
     disabled_tools |-> <<>>,
     commands |-> {}]

\* the place of a KotaConfig where there is none
NoSettings ==
    [model |-> "", api_key |-> "", api_base |-> "", temperature |-> NoF64,
     enabled_tools |-> <<>>, disabled_tools |-> <<>>, commands |-> {}]

\* the outcomes of KotaConfig::load and from_lua_file
ConfigOk(config) == [st |-> "ok", config |-> config, msg |-> ""]
\* an Err carries no KotaConfig: the record stands for none
ConfigErr(m) == [st |-> "err", config |-> NoSettings, msg |-> m]
\* no call made yet
NoConfig == [st |-> "none", config |-> NoSettings, msg |-> ""]

\* os.getenv("NAME") where a script has it for a value
LGetenv(name) == [t |-> "getenv", n |-> 0, s |-> name, e |-> {}]

\* a statement that calls a function of a library with one string
LibCall(fn, arg) == [kind |-> fn, arg |-> LStr(arg)]

\* the functions of the libraries Lua::new() opens that reach outside the
\* Lua state: io and os are among the libraries mlua takes for safe
Lua_stdlib == {"io.open", "os.remove", "os.execute", "os.getenv"}

\* the globals a configuration runs with: those of Lua::new(), kota.setup,
\* and os.getenv replaced by the function that calls _rust_getenv
ConfigGlobals == Lua_stdlib \cup {"kota.setup", "os.getenv", "_rust_getenv"}

\* _rust_getenv where an unset variable is the empty string
rust_getenv_EmptyWhenUnset(env, name) ==
    IF \E x \in env : x.k = name
    THEN LStr((CHOOSE x \in env : x.k = name).v)
    ELSE LStr("")

\* _rust_getenv: std::env::var(&name).ok(), None being nil in Lua
rust_getenv(env, name) ==
    IF \E x \in env : x.k = name
    THEN LStr((CHOOSE x \in env : x.k = name).v)
    ELSE LNil

\* the table constructor of a kota.setup call: every os.getenv is called,
\* and a field whose value is nil is no field of the table
EvalSetupArg(arg, env) ==
    IF arg.t # "table" THEN arg
    ELSE LET val(x) == IF x.v.t = "getenv" THEN rust_getenv(env, x.v.s)
                       ELSE x.v
         IN LTable({Entry(x.k, val(x)) : x \in {y \in arg.e : val(y).t # "nil"}})

\* a run of a configuration: st is "ok" until a statement faults, captured
\* is _kota_config, setups counts the kota.setup calls, env, files and
\* procs are the host's environment, files and started processes
ConfigRunStart(env, files, procs) ==
    [st |-> "ok", captured |-> LNil, setups |-> 0, env |-> env,
     files |-> files, procs |-> procs, msg |-> ""]

\* lua.load(&config_content).exec(), from the i-th statement on: kota.setup
\* assigns its argument to _kota_config, a library function does what the
\* library does, and a call of a global that is nil is a runtime error
RECURSIVE exec_config(_, _, _)
exec_config(script, i, r) ==
    IF i > Len(script) \/ r.st # "ok" THEN r
    ELSE LET stmt == script[i]
         IN exec_config(script, i + 1,
              CASE stmt.kind = "setup" ->
                     [r EXCEPT !.captured = EvalSetupArg(stmt.arg, r.env),
                               !.setups = @ + 1]
                [] stmt.kind \notin ConfigGlobals ->
                     [r EXCEPT !.st = "err",
                               !.msg = "attempt to index a nil value"]
                [] stmt.kind = "io.open" ->
                     [r EXCEPT !.files = @ \cup {stmt.arg.s}]
                [] stmt.kind = "os.remove" ->
                     [r EXCEPT !.files = @ \ {stmt.arg.s}]
                [] stmt.kind = "os.execute" ->
                     [r EXCEPT !.procs = Append(@, stmt.arg.s)]
                [] OTHER -> r)

\* the run from_lua_file makes of the file: none when it cannot be read or
\* does not compile
ConfigRun(file, env, files, procs) ==
    IF ~file.exists \/ ~Compiles(file.script)
    THEN ConfigRunStart(env, files, procs)
    ELSE exec_config(file.script, 1, ConfigRunStart(env, files, procs))

\* for pair in list.pairs::<LuaValue, String>(): the elements that convert
\* to a String are pushed, the others passed over; the lists of the model
\* are sequences, which pairs() hands out as 1, 2, ...
RECURSIVE PushTools(_, _, _)
PushTools(list, i, acc) ==
    IF i > MaxIndex({x \in list.e : x.k.t = "integer"}) THEN acc
    ELSE LET tool_ == FromLua_String(TableGet(list.e, LInt(i)))
         IN PushTools(list, i + 1,
                      IF tool_.st = "ok" THEN Append(acc, tool_.x) ELSE acc)

\* ToolsOf that reads tools.enabled for either list
ToolsOf_EnabledForBoth(captured, field, acc) ==
    LET tools_ == FromLua_Table(TableGet(captured.e, LStr("tools")))
        list == FromLua_Table(TableGet(tools_.x.e, LStr("enabled")))
    IN IF tools_.st # "ok" THEN acc
       ELSE IF list.st # "ok" THEN acc
       ELSE PushTools(list.x, 1, acc)

\* the tools of config.tools.<field> appended to those the config has
ToolsOf(captured, field, acc) ==
    LET tools_ == FromLua_Table(TableGet(captured.e, LStr("tools")))
        list == FromLua_Table(TableGet(tools_.x.e, LStr(field)))
    IN IF tools_.st # "ok" THEN acc
       ELSE IF list.st # "ok" THEN acc
       ELSE PushTools(list.x, 1, acc)

\* KotaConfig::parse_from_lua: a field that is present and converts
\* replaces the one the config has; model, api_key, api_base, temperature
\* and tools are the fields it reads
parse_from_lua(global, config) ==
    LET captured == FromLua_Table(global)
        model == FromLua_String(TableGet(captured.x.e, LStr("model")))
        api_key == FromLua_String(TableGet(captured.x.e, LStr("api_key")))
        api_base == FromLua_String(TableGet(captured.x.e, LStr("api_base")))
        temp == FromLua_f64(TableGet(captured.x.e, LStr("temperature")))
    IN IF captured.st # "ok"
       THEN ConfigErr("Config not properly initialized: " \o captured.msg)
       ELSE ConfigOk(
              [model |-> IF model.st = "ok" THEN model.x ELSE config.model,
               api_key |-> IF api_key.st = "ok" THEN api_key.x ELSE config.api_key,
               api_base |-> IF api_base.st = "ok" THEN api_base.x
                            ELSE config.api_base,
               temperature |-> IF temp.st = "ok" THEN SomeF64(temp.x)
                               ELSE config.temperature,
               enabled_tools |->
                   ToolsOf(captured.x, "enabled", config.enabled_tools),
               disabled_tools |->
                   ToolsOf(captured.x, "disabled", config.disabled_tools),
               commands |-> config.commands])

\* KotaConfig::from_lua_file, run being the run of the file's content
from_lua_file(file, run) ==
    IF ~file.exists
    THEN ConfigErr("Failed to read config file: No such file or directory (os error 2)")
    ELSE IF ~Compiles(file.script)
    THEN ConfigErr("Failed to execute Lua config: " \o LuaSyntaxError)
    ELSE IF run.st # "ok"
    THEN ConfigErr("Failed to execute Lua config: " \o run.msg)
    ELSE parse_from_lua(run.captured, KotaConfig_default)

\* KotaConfig::load, file being .kota/config.lua
KotaConfig_load(file, run) ==
    IF ~file.exists
    THEN ConfigErr("Configuration file not found: " \o ".kota/config.lua"
                   \o "\nPlease create a .kota/config.lua file. ")
    ELSE from_lua_file(file, run)

\* the files of the working directory besides the two scripts
WorkFiles == {"notes.txt"}

\* the loaders at rest, in the runs of the other components
LoadIdle ==
    /\ toolsFile = FileAbsent
    /\ loadedTools = NotLoaded
    /\ configFile = FileAbsent
    /\ loadedConfig = NoConfig
    /\ hostEnv = {}
    /\ hostFiles = WorkFiles
    /\ spawned = <<>>

---------------------------------------------------------------------------
(* plan.rs: Plan and PlanManager                                           *)

\* Task
Task(id, description, status, dependencies) ==
    [id |-> id, description |-> description, status |-> status,
     dependencies |-> dependencies]

\* Option<Plan>: None, and Some(Plan { title, tasks, next_id })
NoPlan == [some |-> FALSE, title |-> "", tasks |-> <<>>, next_id |-> 0]

\* Plan::new(title)
Plan_new(title) ==
    [some |-> TRUE, title |-> title, tasks |-> <<>>, next_id |-> 1]

\* Plan::add_task: the plan with the task and the id it got
Plan_add_task(plan, description, dependencies) ==
    [plan |-> [plan EXCEPT !.next_id = @ + 1,
                           !.tasks = Append(@, Task(plan.next_id, description,
                                                    "Pending", dependencies))],
     id |-> plan.next_id]

\* self.tasks.iter().find(|t| t.id == id): the places of the first task of
\* that id, none or one
FindTask(plan, id) ==
    {i \in 1..Len(plan.tasks) :
        /\ plan.tasks[i].id = id
        /\ \A j \in 1..(i - 1) : plan.tasks[j].id # id}

\* Plan::update_status: the plan and the bool it returns
Plan_update_status(plan, task_id, status) ==
    IF FindTask(plan, task_id) # {}
    THEN [plan |-> [plan EXCEPT
                      !.tasks[CHOOSE i \in FindTask(plan, task_id) : TRUE].status
                          = status],
          found |-> TRUE]
    ELSE [plan |-> plan, found |-> FALSE]

\* Plan::get_next_tasks where a dependency that names no task counts as met
Plan_get_next_tasks_MissingDepOk(plan) ==
    SelectSeq(plan.tasks, LAMBDA t :
        /\ t.status = "Pending"
        /\ \A k \in 1..Len(t.dependencies) :
              \A i \in FindTask(plan, t.dependencies[k]) :
                  plan.tasks[i].status = "Completed")

\* Plan::get_next_tasks
Plan_get_next_tasks(plan) ==
    SelectSeq(plan.tasks, LAMBDA t :
        /\ t.status = "Pending"
        /\ \A k \in 1..Len(t.dependencies) :
              /\ FindTask(plan, t.dependencies[k]) # {}
              /\ \A i \in FindTask(plan, t.dependencies[k]) :
                    plan.tasks[i].status = "Completed")

\* the icon Plan::format gives a status
StatusIcon(status) ==
    CASE status = "Pending" -> "pending"
      [] status = "InProgress" -> "in progress"
      [] status = "Completed" -> "completed"
      [] status = "Blocked" -> "blocked"

\* Option<String> of a formatted plan: the text is kept by its parts, the
\* title, a line [icon, id, description, dependencies] per task and a
\* line [id, description] per next available task
NoText == [some |-> FALSE, title |-> "", lines |-> <<>>, next |-> <<>>]

\* Some(plan.format())
Plan_format(plan) ==
    [some |-> TRUE,
     title |-> plan.title,
     lines |-> [i \in 1..Len(plan.tasks) |->
                  [icon |-> StatusIcon(plan.tasks[i].status),
                   id |-> plan.tasks[i].id,
                   description |-> plan.tasks[i].description,
                   dependencies |-> plan.tasks[i].dependencies]],
     next |-> LET ts == Plan_get_next_tasks(plan)
              IN [i \in 1..Len(ts) |->
                    [id |-> ts[i].id, description |-> ts[i].description]]]

\* PlanManager::update_plan(f), after being the plan as f leaves it: f is
\* applied under the lock when there is a plan, and the bool tells whether
\* there was one
PlanManager_update_plan(cur, after) ==
    IF cur.some THEN [plan |-> after, ok |-> TRUE]
    ELSE [plan |-> cur, ok |-> FALSE]

---------------------------------------------------------------------------
(* tools/update_plan.rs: UpdatePlanTool                                    *)

\* str::to_lowercase on the status strings of the model
to_lowercase(str) ==
    CASE str = "Completed" -> "completed"
      [] str = "DONE" -> "done"
      [] OTHER -> str

\* UpdatePlanTool::parse_status: an Option, the set of none or one status
parse_status(status_str) ==
    LET lower == to_lowercase(status_str)
    IN CASE lower = "pending" -> {"Pending"}
         [] lower \in {"in_progress", "inprogress"} -> {"InProgress"}
         [] lower \in {"completed", "done"} -> {"Completed"}
         [] lower = "blocked" -> {"Blocked"}
         [] OTHER -> {}

\* UpdatePlanArgs
PlanArgs(action, title, description, dependencies, task_id, status) ==
    [action |-> action, title |-> title, description |-> description,
     dependencies |-> dependencies, task_id |-> task_id, status |-> status]

\* what a call returns: Ok(UpdatePlanOutput { success: true, message,
\* plan }), Err(FileToolError::InvalidInput(message)), or the panic of
\* Option::unwrap on None
PlanOk(message, plan) == [st |-> "ok", message |-> message, plan |-> plan]
PlanErr(message) == [st |-> "err", message |-> message, plan |-> NoText]
PlanPanic ==
    [st |-> "panic",
     message |-> "called Option::unwrap() on a None value",
     plan |-> NoText]

\* no call between its update and its get_plan
PcIdle ==
    [at |-> "idle", success |-> FALSE, found |-> FALSE,
     args |-> PlanArgs("", "", "", <<>>, 0, "")]

\* no call has returned
NoPlanOut == [args |-> PlanArgs("", "", "", <<>>, 0, ""), res |-> PlanErr("")]

\* the second half of the AddTask and UpdateStatus arms, message being the
\* message of success: get_plan().unwrap() and the output
ReturnAfterUpdate(cur, success, message, failure) ==
    IF success
    THEN IF cur.some THEN PlanOk(message, Plan_format(cur)) ELSE PlanPanic
    ELSE PlanErr(failure)

\* the plan manager at rest, in the runs of the other components
PlanIdle ==
    /\ current_plan = NoPlan
    /\ planPc = PcIdle
    /\ planOut = NoPlanOut

---------------------------------------------------------------------------
(* skills.rs: SkillManager                                                 *)

\* Skill
Skill(name, description) ==
    [name |-> name, description |-> description]

\* the outcome of a SkillManager operation
SkillRet(opname, name, st, m) ==
    [op |-> opname, name |-> name, st |-> st, msg |-> m]

\* SkillManager::remove_skill that leaves active_skill as it is
SkillManager_remove_skill_KeepActive(m, active, dirs, name, fs_ok) ==
    IF name \in dirs /\ ~fs_ok
    THEN [skills |-> m, active |-> active, dirs |-> dirs,
          ret |-> SkillRet("remove_skill", name, "err", "fs")]
    ELSE IF \E x \in m : x.k = name
    THEN [skills |-> HashMap_remove(m, name), active |-> active,
          dirs |-> dirs \ {name},
          ret |-> SkillRet("remove_skill", name, "ok", "")]
    ELSE [skills |-> m, active |-> active, dirs |-> dirs \ {name},
          ret |-> SkillRet("remove_skill", name, "err",
                           "Skill '" \o name \o "' not found")]

\* SkillManager::remove_skill; fs_ok tells whether fs::remove_dir_all
\* succeeds when there is a directory
SkillManager_remove_skill(m, active, dirs, name, fs_ok) ==
    IF name \in dirs /\ ~fs_ok
    THEN [skills |-> m, active |-> active, dirs |-> dirs,
          ret |-> SkillRet("remove_skill", name, "err", "fs")]
    ELSE IF \E x \in m : x.k = name
    THEN [skills |-> HashMap_remove(m, name),
          active |-> IF active = {name} THEN {} ELSE active,
          dirs |-> dirs \ {name},
          ret |-> SkillRet("remove_skill", name, "ok", "")]
    ELSE [skills |-> m, active |-> active, dirs |-> dirs \ {name},
          ret |-> SkillRet("remove_skill", name, "err",
                           "Skill '" \o name \o "' not found")]

\* SkillManager::activate_skill
SkillManager_activate_skill(m, active, name) ==
    IF \E x \in m : x.k = name
    THEN [active |-> {name}, ret |-> SkillRet("activate_skill", name, "ok", "")]
    ELSE [active |-> active,
          ret |-> SkillRet("activate_skill", name, "err",
                           "Skill '" \o name \o "' not found")]

\* SkillManager::get_active_skill
SkillManager_get_active_skill(m, active) ==
    UNION {HashMap_get(m, name) : name \in active}

\* the skill manager at rest, in the runs of the other components
SkillIdle ==
    /\ skills = {}
    /\ active_skill = {}
    /\ skillDirs = {}
    /\ skillRet = SkillRet("none", "", "ok", "")

---------------------------------------------------------------------------
(* Inputs of the value bridge.                                             *)

\* keys a guest table is enumerated over: integers in and out of 1..N,
\* strings (one of them a digit string), a float and a boolean
GuestKeys ==
    {LInt(1), LInt(2), LInt(4), LInt(0), LStr("a"), LStr("1"), LNum(3),
     LBool(TRUE)}

\* values stored under them
GuestLeaves == {LStr("x"), LInt(7), LTable({})}

\* the integer key 1 and the string key "1" of one table both become the
\* object key "1", and which of the two survives is decided by the order of
\* table.pairs(): such tables are left out
KeySets ==
    {K \in SUBSET GuestKeys :
        Cardinality(K) <= MaxKeys /\ ~({LInt(1), LStr("1")} \subseteq K)}

FlatTables ==
    UNION {{LTable({Entry(key, f[key]) : key \in K}) : f \in [K -> GuestLeaves]} :
           K \in KeySets}

\* a table that holds itself: local t = {}; t.me = t
CyclicTable == LTable({Entry(LStr("me"), LSelf(1))})

GuestScalars ==
    {LNil, LBool(TRUE), LBool(FALSE), LInt(7), LNum(3), LNonFinite("nan"),
     LNonFinite("inf"), LStr("x"), LBytes("ff"), LFunction}

\* tables that hold a float that is no finite number: { 0/0 } and
\* { a = -math.huge }
NonFiniteTables ==
    {LTable({Entry(LInt(1), LNonFinite("nan"))}),
     LTable({Entry(LStr("a"), LNonFinite("-inf"))})}

GuestInputs ==
    GuestScalars \cup FlatTables \cup NonFiniteTables
    \cup {LTable({Entry(LInt(1), tb)}) : tb \in FlatTables}
    \cup {LTable({Entry(LStr("a"), tb)}) : tb \in FlatTables}
    \cup {CyclicTable, LTable({Entry(LInt(1), CyclicTable)})}

DocScalars == {JNull, JBool(TRUE), JInt(1), JFloat(3), JStr("a")}

\* the sequences over S of length at most n
SeqsUpTo(S, n) == UNION {[1..m -> S] : m \in 0..n}

DocKeys == {"a", "1"}

\* the objects over the keys K with values in S
ObjectsOver(K, S) ==
    UNION {{{Entry(key, f[key]) : key \in Ks} : f \in [Ks -> S]} : Ks \in SUBSET K}

FlatDocs ==
    DocScalars
    \cup {JArr(xs) : xs \in SeqsUpTo(DocScalars, MaxArr)}
    \cup {JObj(es) : es \in ObjectsOver(DocKeys, DocScalars)}

DocInputs ==
    FlatDocs
    \cup {JArr(<<d>>) : d \in FlatDocs}
    \cup {JObj({Entry("a", d)}) : d \in FlatDocs}

---------------------------------------------------------------------------
(* The value bridge applied to one input.                                  *)

\* the bridge at rest, in the runs of the other components
BridgeIdle ==
    src = "none" /\ guest = LNil /\ doc = JNull /\ host = Ok(JNull) /\ op = "none"

BridgeInit ==
    /\ op = "none"
    /\ host = Ok(JNull)
    /\ \/ src = "guest" /\ guest \in GuestInputs /\ doc = JNull
       \/ src = "doc" /\ doc \in DocInputs /\ guest = LNil
    /\ ToolIdle
    /\ CmdIdle
    /\ RegIdle
    /\ ParseIdle
    /\ LoadIdle
    /\ PlanIdle
    /\ SkillIdle

\* to_host of a guest value
ToHost ==
    /\ src = "guest" /\ op = "none"
    /\ host' = lua_to_json(guest)
    /\ op' = "to_host"
    /\ UNCHANGED <<src, guest, doc>>
    /\ UNCHANGED <<toolVars, cmdVars, regVars, parseVars, loadVars>>
    /\ UNCHANGED <<planVars, skillVars>>

\* to_guest of a document
ToGuest ==
    /\ src = "doc" /\ op = "none"
    /\ guest' = json_to_lua(doc)
    /\ op' = "to_guest"
    /\ UNCHANGED <<src, doc, host>>
    /\ UNCHANGED <<toolVars, cmdVars, regVars, parseVars, loadVars>>
    /\ UNCHANGED <<planVars, skillVars>>

\* to_host of the guest value to_guest made
BackToHost ==
    /\ src = "doc" /\ op = "to_guest"
    /\ host' = lua_to_json(guest)
    /\ op' = "round_trip"
    /\ UNCHANGED <<src, guest, doc>>
    /\ UNCHANGED <<toolVars, cmdVars, regVars, parseVars, loadVars>>
    /\ UNCHANGED <<planVars, skillVars>>

BridgeNext == ToHost \/ ToGuest \/ BackToHost

SpecBridge == BridgeInit /\ [][BridgeNext]_vars

---------------------------------------------------------------------------
(* One dynamic tool, called again and again.                               *)

ToolInit ==
    /\ tool \in DynTools
    /\ calls = <<>>
    /\ lastLua = {}
    /\ BridgeIdle
    /\ CmdIdle
    /\ RegIdle
    /\ ParseIdle
    /\ LoadIdle
    /\ PlanIdle
    /\ SkillIdle

\* tool.call(args): a new Lua state for this call, dropped when it returns
call ==
    /\ Len(calls) < MaxCalls
    /\ ~Aborted
    /\ \E args \in ArgStrings :
          LET res == LuaDynTool_call(tool, args, Lua_new)
          IN /\ calls' = Append(calls, [args |-> args, res |-> res])
             /\ lastLua' = res.g
    /\ UNCHANGED tool
    /\ UNCHANGED <<bridgeVars, cmdVars, regVars, parseVars, loadVars>>
    /\ UNCHANGED <<planVars, skillVars>>

ToolNext == call

SpecTool == ToolInit /\ [][ToolNext]_vars

---------------------------------------------------------------------------
(* One command registry, executing commands one after another.             *)

\* CommandRegistry::new(&config)
CmdInit ==
    /\ commands = ConfigCommands
    /\ cmdLua = CommandRegistry_lua
    /\ cmdLog = <<>>
    /\ BridgeIdle
    /\ ToolIdle
    /\ RegIdle
    /\ ParseIdle
    /\ LoadIdle
    /\ PlanIdle
    /\ SkillIdle

\* registry.execute(name, args): the registry's own Lua state runs the
\* function and keeps what it wrote
execute ==
    /\ Len(cmdLog) < MaxExec
    /\ \E name \in ExecNames, args \in ArgMaps :
          LET res == CommandRegistry_execute(commands, cmdLua, name, args)
          IN /\ cmdLog' = Append(cmdLog, [name |-> name, args |-> args, res |-> res])
             /\ cmdLua' = res.g
    /\ UNCHANGED commands
    /\ UNCHANGED <<bridgeVars, toolVars, regVars, parseVars, loadVars>>
    /\ UNCHANGED <<planVars, skillVars>>

CmdNext == execute

SpecCmd == CmdInit /\ [][CmdNext]_vars

---------------------------------------------------------------------------
(* The command-line parser applied to one input line.                      *)

\* the first piece of a line: a plain name, and one with a '=' in it
NameTokens == {<<"t", "e", "s", "t">>, <<"a", "=", "b">>}

\* the later pieces: positional ones, named ones, two with the same key, one
\* whose key is a digit string, one with a second '=', and the ones with an
\* empty key and an empty value
ArgTokens ==
    {<<"a", "r", "g", "1">>,
     <<"a", "r", "g", "2">>,
     <<"k", "e", "y", "=", "v", "a", "l", "u", "e">>,
     <<"k", "e", "y", "=", "o", "t", "h", "e", "r">>,
     <<"1", "=", "x">>,
     <<"k", "e", "y", "=", "a", "=", "b">>,
     <<"=", "v">>,
     <<"k", "=">>}

\* the white space before the first piece, between two pieces and after the
\* last one
Layouts ==
    {[lead |-> <<>>, sep |-> <<" ">>, trail |-> <<>>],
     [lead |-> <<" ">>, sep |-> <<" ", " ">>, trail |-> <<" ">>],
     [lead |-> <<"\t">>, sep |-> <<"\t">>, trail |-> <<>>],
     [lead |-> <<>>, sep |-> <<" ", "\t">>, trail |-> <<"\t", " ">>]}

\* the pieces with sep between them
RECURSIVE Join(_, _)
Join(toks, sep) ==
    IF toks = <<>> THEN <<>>
    ELSE IF Len(toks) = 1 THEN toks[1]
    ELSE toks[1] \o sep \o Join(Tail(toks), sep)

Line(toks, lay) == lay.lead \o Join(toks, lay.sep) \o lay.trail

\* lines without a piece
BlankLines == {<<>>, <<" ">>, <<"\t", " ">>}

InputLines ==
    BlankLines
    \cup {Line(<<nm>> \o as, lay) :
            nm \in NameTokens, as \in SeqsUpTo(ArgTokens, MaxArgs), lay \in Layouts}

ParseInit ==
    /\ input \in InputLines
    /\ parsed = NotParsed
    /\ BridgeIdle
    /\ ToolIdle
    /\ CmdIdle
    /\ RegIdle
    /\ LoadIdle
    /\ PlanIdle
    /\ SkillIdle

\* parse_command_input(input)
parse ==
    /\ parsed.st = "none"
    /\ parsed' = parse_command_input(input)
    /\ UNCHANGED input
    /\ UNCHANGED <<bridgeVars, toolVars, cmdVars, regVars, loadVars>>
    /\ UNCHANGED <<planVars, skillVars>>

SpecParse == ParseInit /\ [][parse]_vars

---------------------------------------------------------------------------
(* The loaders applied to the files of one working directory.              *)

\* the table a manifest hands to kota.register_tool
ToolDef(name, description, parameters, entry) ==
    LTable({x \in {Entry(LStr("name"), name),
                   Entry(LStr("description"), description),
                   Entry(LStr("parameters"), parameters),
                   Entry(LStr("entry"), entry)} : x.v.t # "nil"})

\* parameters = { type = "object" }
ObjectSchema == LTable({Entry(LStr("type"), LStr("object"))})

\* the tables the manifests register: add, echo and a second add, which
\* lack nothing; one whose name is the empty string; and the faulty ones,
\* without a name, without a description, with parameters that are no
\* table, with an entry that is no function, and one that is no table
ToolDefs ==
    {ToolDef(LStr("add"), LStr("Add two numbers"), ObjectSchema, LFunc("add")),
     ToolDef(LStr("echo"), LStr("Return the arguments"), ObjectSchema, LFunc("echo")),
     ToolDef(LStr("add"), LStr("Add, once more"), ObjectSchema, LFunc("counter")),
     ToolDef(LStr(""), LStr("No name"), ObjectSchema, LFunc("echo")),
     ToolDef(LNil, LStr("No name"), ObjectSchema, LFunc("echo")),
     ToolDef(LStr("nodesc"), LNil, ObjectSchema, LFunc("echo")),
     ToolDef(LStr("badparams"), LStr("Parameters"), LStr("object"), LFunc("echo")),
     ToolDef(LStr("badentry"), LStr("Entry"), ObjectSchema, LStr("echo")),
     LStr("add")}

\* the statements of a manifest: the registrations, and a registration
\* whose entry function does not compile
ManifestStatements ==
    {RegisterCall(d) : d \in ToolDefs} \cup {SyntaxFault}

ToolsFiles ==
    {FileAbsent} \cup {File(sc) : sc \in SeqsUpTo(ManifestStatements, MaxRegs)}

\* the configuration files: none, an empty one, one that does not compile,
\* and ones that call kota.setup once and twice
ConfigFiles ==
    {FileAbsent,
     File(<<>>),
     File(<<SyntaxFault>>),
     File(<<SetupCall(LTable({Entry(LStr("model"), LStr("gpt-4"))}))>>),
     File(<<SetupCall(LTable({
              Entry(LStr("temperature"), LNum(3)),
              Entry(LStr("tools"),
                    LTable({Entry(LStr("enabled"),
                                  LTable({Entry(LInt(1), LStr("bash")),
                                          Entry(LInt(2), LStr("read_file"))}))}))}))>>),
     File(<<SetupCall(LTable({Entry(LStr("model"), LStr("gpt-4"))})),
            SetupCall(LTable({Entry(LStr("api_key"), LStr("sk-1"))}))>>)}

LoadInit ==
    /\ toolsFile \in ToolsFiles
    /\ loadedTools = NotLoaded
    /\ configFile \in ConfigFiles
    /\ loadedConfig = NoConfig
    /\ hostEnv = {}
    /\ hostFiles = WorkFiles
    /\ spawned = <<>>
    /\ BridgeIdle
    /\ ToolIdle
    /\ CmdIdle
    /\ RegIdle
    /\ ParseIdle
    /\ PlanIdle
    /\ SkillIdle

\* LuaToolLoader::load_tools()
load_tools ==
    /\ loadedTools.st = "none"
    /\ loadedTools' = LuaToolLoader_load_tools(toolsFile)
    /\ UNCHANGED <<toolsFile, configFile, loadedConfig, hostEnv, hostFiles,
                   spawned>>
    /\ UNCHANGED <<bridgeVars, toolVars, cmdVars, regVars, parseVars>>
    /\ UNCHANGED <<planVars, skillVars>>

\* KotaConfig::load(): the configuration runs in the host process, and
\* what it does to the host stays done
load ==
    /\ loadedConfig.st = "none"
    /\ LET run == ConfigRun(configFile, hostEnv, hostFiles, spawned)
       IN /\ loadedConfig' = KotaConfig_load(configFile, run)
          /\ hostEnv' = run.env
          /\ hostFiles' = run.files
          /\ spawned' = run.procs
    /\ UNCHANGED <<toolsFile, loadedTools, configFile>>
    /\ UNCHANGED <<bridgeVars, toolVars, cmdVars, regVars, parseVars>>
    /\ UNCHANGED <<planVars, skillVars>>

SpecLoad == LoadInit /\ [][load_tools \/ load]_vars

---------------------------------------------------------------------------
(* The config loader applied to one configuration in one environment.      *)

\* a list as the table constructor { "a", "b" } makes it
LList(xs) == LTable({Entry(LInt(i), LStr(xs[i])) : i \in 1..Len(xs)})

\* the arguments the configurations hand to kota.setup: documents that
\* supply one field, several or all of them, one that reads its model and
\* key from the environment, one that declares two commands, and one that
\* is no table
SetupDocs ==
    {LTable({Entry(LStr("model"), LStr("gpt-4"))}),
     LTable({Entry(LStr("api_key"), LStr("sk-1"))}),
     LTable({Entry(LStr("temperature"), LNum(3)),
             Entry(LStr("tools"),
                   LTable({Entry(LStr("enabled"),
                                 LList(<<"read_file", "bash">>))}))}),
     LTable({Entry(LStr("api_base"), LStr("http://localhost:11434/v1")),
             Entry(LStr("tools"),
                   LTable({Entry(LStr("disabled"),
                                 LList(<<"delete_file", "bash">>))}))}),
     LTable({Entry(LStr("model"), LGetenv("KOTA_MODEL")),
             Entry(LStr("api_key"), LGetenv("KOTA_KEY"))}),
     LTable({Entry(LStr("model"), LStr("deepseek-chat")),
             Entry(LStr("api_key"), LGetenv("KOTA_KEY")),
             Entry(LStr("api_base"), LStr("https://api.deepseek.com")),
             Entry(LStr("temperature"), LNum(1)),
             Entry(LStr("tools"),
                   LTable({Entry(LStr("enabled"),
                                 LList(<<"write_file", "read_file">>)),
                           Entry(LStr("disabled"),
                                 LList(<<"bash">>))}))}),
     LTable({Entry(LStr("model"), LStr("gpt-4")),
             Entry(LStr("commands"),
                   LTable({Entry(LStr("fix"),
                                 LStr("analyze and fix the current file")),
                           Entry(LStr("test"), LFunc("run_tests"))}))}),
     LStr("gpt-4")}

\* the statements of a configuration: the kota.setup calls, calls into
\* the io and os libraries and into a library Lua::new() does not open,
\* and a text that does not compile
ConfigStatements ==
    {SetupCall(d) : d \in SetupDocs}
    \cup {LibCall("io.open", "out.txt"), LibCall("os.remove", "notes.txt"),
          LibCall("os.execute", "curl example.org | sh"),
          LibCall("socket.connect", "example.org"), SyntaxFault}

ConfigScripts ==
    {FileAbsent} \cup {File(sc) : sc \in SeqsUpTo(ConfigStatements, MaxStmts)}

\* the environments of the host: each of the two variables set or unset
HostEnvs ==
    SUBSET {Entry("KOTA_MODEL", "o3-mini"), Entry("KOTA_KEY", "sk-env")}

ConfigInit ==
    /\ toolsFile = FileAbsent
    /\ loadedTools = NotLoaded
    /\ configFile \in ConfigScripts
    /\ loadedConfig = NoConfig
    /\ hostEnv \in HostEnvs
    /\ hostFiles = WorkFiles
    /\ spawned = <<>>
    /\ BridgeIdle
    /\ ToolIdle
    /\ CmdIdle
    /\ RegIdle
    /\ ParseIdle
    /\ PlanIdle
    /\ SkillIdle

\* CommandRegistry::new(&config) with the configuration a load returned
new ==
    /\ loadedConfig.st = "ok"
    /\ cmdLua = {}
    /\ LET registry == CommandRegistry_new(loadedConfig.config)
       IN /\ commands' = registry.commands
          /\ cmdLua' = registry.lua
    /\ UNCHANGED cmdLog
    /\ UNCHANGED <<bridgeVars, toolVars, regVars, parseVars, loadVars>>
    /\ UNCHANGED <<planVars, skillVars>>

SpecConfig == ConfigInit /\ [][load \/ new]_vars

---------------------------------------------------------------------------
(* The update_plan tool on one plan manager, alone and next to another     *)
(* holder of the same manager.                                             *)

Titles == {"release", "cleanup"}
Descriptions == {"write tests"}

\* the dependencies a task is added with: none, the first task, the first
\* two, and a task no plan of the model has
DepLists == {<<>>, <<1>>, <<1, 2>>, <<9>>}

\* the ids and the status strings update_status is called with
TaskIds == {1, 2, 9}
StatusStrings == {"done", "in_progress", "Completed", "bogus"}

\* PlanManager::new(), and no skill manager in use
PlanInit ==
    /\ current_plan = NoPlan
    /\ planPc = PcIdle
    /\ planOut = NoPlanOut
    /\ SkillIdle
    /\ BridgeIdle
    /\ ToolIdle
    /\ CmdIdle
    /\ RegIdle
    /\ ParseIdle
    /\ LoadIdle

\* call(Create { title })
create ==
    /\ planPc.at = "idle"
    /\ \E title \in Titles :
          LET plan == Plan_new(title)
          IN /\ current_plan' = plan
             /\ planOut' = [args |-> PlanArgs("create", title, "", <<>>, 0, ""),
                            res |-> PlanOk("Created plan: " \o title,
                                           Plan_format(plan))]
    /\ UNCHANGED planPc
    /\ UNCHANGED <<bridgeVars, toolVars, cmdVars, regVars, parseVars, loadVars>>
    /\ UNCHANGED skillVars

\* call(AddTask { description, dependencies }) as far as update_plan
add_task ==
    /\ planPc.at = "idle"
    /\ Len(current_plan.tasks) < MaxTasks
    /\ \E description \in Descriptions, dependencies \in DepLists :
          LET r == PlanManager_update_plan(current_plan,
                      Plan_add_task(current_plan, description,
                                    dependencies).plan)
              task_id == IF current_plan.some THEN current_plan.next_id ELSE 0
          IN /\ current_plan' = r.plan
             /\ planPc' = [at |-> "add_task", success |-> r.ok,
                           found |-> r.ok,
                           args |-> PlanArgs("add_task", "", description,
                                             dependencies, task_id, "")]
    /\ UNCHANGED planOut
    /\ UNCHANGED <<bridgeVars, toolVars, cmdVars, regVars, parseVars, loadVars>>
    /\ UNCHANGED skillVars

\* the AddTask arm from `if success` on
add_task_return ==
    /\ planPc.at = "add_task"
    /\ planOut' =
          [args |-> planPc.args,
           res |-> ReturnAfterUpdate(current_plan, planPc.success,
                      "Added task [" \o NatToString(planPc.args.task_id)
                          \o "]: " \o planPc.args.description,
                      "No active plan. Create one first.")]
    /\ planPc' = PcIdle
    /\ UNCHANGED current_plan
    /\ UNCHANGED <<bridgeVars, toolVars, cmdVars, regVars, parseVars, loadVars>>
    /\ UNCHANGED skillVars

\* call(UpdateStatus { task_id, status }) as far as update_plan: a status
\* that does not parse returns at once
update_status ==
    /\ planPc.at = "idle"
    /\ \E task_id \in TaskIds, status \in StatusStrings :
          LET args == PlanArgs("update_status", "", "", <<>>, task_id, status)
              status_enum == parse_status(status)
              r == PlanManager_update_plan(current_plan,
                      Plan_update_status(current_plan, task_id,
                          CHOOSE e \in status_enum : TRUE).plan)
          IN IF status_enum = {}
             THEN /\ planOut' = [args |-> args,
                                 res |-> PlanErr("Invalid status: " \o status)]
                  /\ UNCHANGED <<current_plan, planPc>>
             ELSE /\ current_plan' = r.plan
                  /\ planPc' = [at |-> "update_status", success |-> r.ok,
                                found |-> /\ r.ok
                                          /\ FindTask(current_plan, task_id) # {},
                                args |-> args]
                  /\ UNCHANGED planOut
    /\ UNCHANGED <<bridgeVars, toolVars, cmdVars, regVars, parseVars, loadVars>>
    /\ UNCHANGED skillVars

\* the UpdateStatus arm from `if success` on
update_status_return ==
    /\ planPc.at = "update_status"
    /\ planOut' =
          [args |-> planPc.args,
           res |-> ReturnAfterUpdate(current_plan, planPc.success,
                      "Updated task [" \o NatToString(planPc.args.task_id)
                          \o "] to " \o planPc.args.status,
                      "No active plan or task not found.")]
    /\ planPc' = PcIdle
    /\ UNCHANGED current_plan
    /\ UNCHANGED <<bridgeVars, toolVars, cmdVars, regVars, parseVars, loadVars>>
    /\ UNCHANGED skillVars

\* call(Show)
show ==
    /\ planPc.at = "idle"
    /\ planOut' = [args |-> PlanArgs("show", "", "", <<>>, 0, ""),
                   res |-> IF current_plan.some
                           THEN PlanOk("Current plan", Plan_format(current_plan))
                           ELSE PlanErr("No active plan.")]
    /\ UNCHANGED <<current_plan, planPc>>
    /\ UNCHANGED <<bridgeVars, toolVars, cmdVars, regVars, parseVars, loadVars>>
    /\ UNCHANGED skillVars

\* call(Clear)
clear_plan ==
    /\ planPc.at = "idle"
    /\ current_plan' = NoPlan
    /\ planOut' = [args |-> PlanArgs("clear", "", "", <<>>, 0, ""),
                   res |-> PlanOk("Plan cleared", NoText)]
    /\ UNCHANGED planPc
    /\ UNCHANGED <<bridgeVars, toolVars, cmdVars, regVars, parseVars, loadVars>>
    /\ UNCHANGED skillVars

\* the calls of the tool
PlanNext ==
    \/ create
    \/ add_task
    \/ add_task_return
    \/ update_status
    \/ update_status_return
    \/ show
    \/ clear_plan

SpecPlan == PlanInit /\ [][PlanNext]_vars

\* another holder of the manager clears the plan, at any time: the
\* manager's lock is free between the calls the tool makes of it
other_clear_plan ==
    /\ current_plan.some
    /\ current_plan' = NoPlan
    /\ UNCHANGED <<planPc, planOut>>
    /\ UNCHANGED <<bridgeVars, toolVars, cmdVars, regVars, parseVars, loadVars>>
    /\ UNCHANGED skillVars

\* another holder of the manager sets a new plan, at any time
other_set_plan ==
    /\ \E title \in Titles :
          /\ current_plan # Plan_new(title)
          /\ current_plan' = Plan_new(title)
    /\ UNCHANGED <<planPc, planOut>>
    /\ UNCHANGED <<bridgeVars, toolVars, cmdVars, regVars, parseVars, loadVars>>
    /\ UNCHANGED skillVars

SpecPlanShared ==
    PlanInit /\ [][PlanNext \/ other_clear_plan \/ other_set_plan]_vars

---------------------------------------------------------------------------
(* One skill manager under any sequence of its operations.                 *)

\* the names of the model: two of the default skills and one of the user
SkillNames == {"code-review", "debug", "notes"}

\* the skills the operations are called with, two of them of one name
Skills ==
    {Skill("code-review", "Code review and quality analysis"),
     Skill("debug", "Problem diagnosis and debugging"),
     Skill("notes", "Keep notes"),
     Skill("notes", "Keep better notes")}

\* SkillManager::new(): the skills of the directories under .kota/skills,
\* the default ones when there was no such directory, and none active
SkillInit ==
    /\ skillDirs \in SUBSET {"code-review", "debug"}
    /\ skills = {Entry(sk.name, sk) : sk \in {x \in Skills : x.name \in skillDirs}}
    /\ active_skill = {}
    /\ skillRet = SkillRet("new", "", "ok", "")
    /\ PlanIdle
    /\ BridgeIdle
    /\ ToolIdle
    /\ CmdIdle
    /\ RegIdle
    /\ ParseIdle
    /\ LoadIdle

\* manager.add_skill(skill)
add_skill ==
    /\ \E skill \in Skills :
          /\ skills' = HashMap_insert(skills, skill.name, skill)
          /\ skillRet' = SkillRet("add_skill", skill.name, "ok", "")
    /\ UNCHANGED <<active_skill, skillDirs>>
    /\ UNCHANGED <<bridgeVars, toolVars, cmdVars, regVars, parseVars, loadVars>>
    /\ UNCHANGED planVars

\* manager.create_skill(name, description, instructions): the directory
\* and the file are written first, and a failure there returns before the
\* skill is inserted, with or without the directory made
create_skill ==
    /\ \E skill \in Skills, fs_ok \in BOOLEAN :
          IF fs_ok
          THEN /\ skillDirs' = skillDirs \cup {skill.name}
               /\ skills' = HashMap_insert(skills, skill.name, skill)
               /\ skillRet' = SkillRet("create_skill", skill.name, "ok", "")
          ELSE /\ skillDirs' \in {skillDirs, skillDirs \cup {skill.name}}
               /\ skills' = skills
               /\ skillRet' = SkillRet("create_skill", skill.name, "err", "fs")
    /\ UNCHANGED active_skill
    /\ UNCHANGED <<bridgeVars, toolVars, cmdVars, regVars, parseVars, loadVars>>
    /\ UNCHANGED planVars

\* manager.remove_skill(name)
remove_skill ==
    /\ \E name \in SkillNames, fs_ok \in BOOLEAN :
          LET r == SkillManager_remove_skill(skills, active_skill, skillDirs,
                                             name, fs_ok)
          IN /\ skills' = r.skills
             /\ active_skill' = r.active
             /\ skillDirs' = r.dirs
             /\ skillRet' = r.ret
    /\ UNCHANGED <<bridgeVars, toolVars, cmdVars, regVars, parseVars, loadVars>>
    /\ UNCHANGED planVars

\* manager.activate_skill(name)
activate_skill ==
    /\ \E name \in SkillNames :
          LET r == SkillManager_activate_skill(skills, active_skill, name)
          IN /\ active_skill' = r.active
             /\ skillRet' = r.ret
    /\ UNCHANGED <<skills, skillDirs>>
    /\ UNCHANGED <<bridgeVars, toolVars, cmdVars, regVars, parseVars, loadVars>>
    /\ UNCHANGED planVars

\* manager.deactivate_skill()
deactivate_skill ==
    /\ active_skill' = {}
    /\ skillRet' = SkillRet("deactivate_skill", "", "ok", "")
    /\ UNCHANGED <<skills, skillDirs>>
    /\ UNCHANGED <<bridgeVars, toolVars, cmdVars, regVars, parseVars, loadVars>>
    /\ UNCHANGED planVars

SpecSkill ==
    SkillInit /\ [][add_skill \/ create_skill \/ remove_skill
                      \/ activate_skill \/ deactivate_skill]_vars

---------------------------------------------------------------------------
(* One tool registry under any sequence of its operations.                 *)

\* ToolRegistry::new()
Init ==
    /\ RegIdle
    /\ BridgeIdle
    /\ ToolIdle
    /\ CmdIdle
    /\ ParseIdle
    /\ LoadIdle
    /\ PlanIdle
    /\ SkillIdle

\* the sequence without the name
Without(names, name) == SelectSeq(names, LAMBDA n : n # name)

\* registry.register_tool(tool)
register_tool ==
    \E t \in KotaTools :
        /\ tools' = HashMap_insert(tools, t.name, t)
        /\ regOrder' = IF \E i \in 1..Len(regOrder) : regOrder[i] = t.name
                       THEN regOrder ELSE Append(regOrder, t.name)
        /\ lastOp' = Ret("register_tool", t.name, {t}, <<>>, "ok", "")
        /\ UNCHANGED invoked
        /\ UNCHANGED <<bridgeVars, toolVars, cmdVars, parseVars, loadVars>>
        /\ UNCHANGED <<planVars, skillVars>>

\* registry.unregister_tool(name)
unregister_tool ==
    \E name \in LookupNames :
        /\ tools' = HashMap_remove(tools, name)
        /\ regOrder' = Without(regOrder, name)
        /\ lastOp' = Ret("unregister_tool", name, HashMap_get(tools, name),
                         <<>>, "ok", "")
        /\ UNCHANGED invoked
        /\ UNCHANGED <<bridgeVars, toolVars, cmdVars, parseVars, loadVars>>
        /\ UNCHANGED <<planVars, skillVars>>

\* registry.clear()
clear ==
    /\ tools' = {}
    /\ regOrder' = <<>>
    /\ lastOp' = Ret("clear", "", {}, <<>>, "ok", "")
    /\ UNCHANGED invoked
    /\ UNCHANGED <<bridgeVars, toolVars, cmdVars, parseVars, loadVars>>
    /\ UNCHANGED <<planVars, skillVars>>

\* registry.list_tools(): the keys in the order the HashMap iterates
list_tools ==
    \E names \in Orders(Keys(tools)) :
        /\ lastOp' = Ret("list_tools", "", {}, names, "ok", "")
        /\ UNCHANGED <<tools, regOrder, invoked>>
        /\ UNCHANGED <<bridgeVars, toolVars, cmdVars, parseVars, loadVars>>
        /\ UNCHANGED <<planVars, skillVars>>

\* registry.get_definitions(): the definitions, told by their names, in the
\* order the HashMap iterates
get_definitions ==
    \E names \in Orders({x.v.name : x \in tools}) :
        /\ lastOp' = Ret("get_definitions", "", {}, names, "ok", "")
        /\ UNCHANGED <<tools, regOrder, invoked>>
        /\ UNCHANGED <<bridgeVars, toolVars, cmdVars, parseVars, loadVars>>
        /\ UNCHANGED <<planVars, skillVars>>

\* registry.get_tool(name)
get_tool ==
    \E name \in LookupNames :
        /\ lastOp' = Ret("get_tool", name, ToolRegistry_get_tool(tools, name),
                         <<>>, "ok", "")
        /\ UNCHANGED <<tools, regOrder, invoked>>
        /\ UNCHANGED <<bridgeVars, toolVars, cmdVars, parseVars, loadVars>>
        /\ UNCHANGED <<planVars, skillVars>>

\* registry.execute(name, args): tool.call_json(args) runs the capability
\* found under the name
registry_execute ==
    \E name \in LookupNames :
        LET r == ToolRegistry_execute(tools, name)
        IN /\ r.found # {} => Len(invoked) < MaxInvoked
           /\ lastOp' = r
           /\ invoked' = IF r.found = {} THEN invoked
                         ELSE Append(invoked, CHOOSE t \in r.found : TRUE)
           /\ UNCHANGED <<tools, regOrder>>
           /\ UNCHANGED <<bridgeVars, toolVars, cmdVars, parseVars, loadVars>>
           /\ UNCHANGED <<planVars, skillVars>>

Next ==
    \/ register_tool
    \/ unregister_tool
    \/ clear
    \/ list_tools
    \/ get_definitions
    \/ get_tool
    \/ registry_execute

Spec == Init /\ [][Next]_vars

---------------------------------------------------------------------------
(* Claims about the value bridge.                                          *)

\* every key is a positive integer and the largest key is the number of
\* entries: the keys are exactly 1..N
DenseKeys(es) == IsArrayKeys(es) /\ MaxIndex(es) = Cardinality(es)

\* the object key a string or integer table key becomes
KeyString(key) == IF key.t = "string" THEN key.s ELSE IntToString(key.n)

\* the object keys of a table converted as a Map
MapKeys(es) ==
    {KeyString(key) : key \in {y \in Keys(es) : y.t \in {"string", "integer"}}}

\* C1: to_host classifies a guest table as an Array only when its keys are
\* exactly 1..N; a table with a gap in its integer keys, or with a key that
\* is no positive integer, converts to a Map keyed by the string and decimal
\* forms of its keys.
C1_ArrayOnlyWhenDense ==
    (op = "to_host" /\ guest.t = "table" /\ guest.e # {} /\ host.st = "ok") =>
        /\ host.v.t = "array" => DenseKeys(guest.e)
        /\ ~DenseKeys(guest.e) =>
              host.v.t = "object" /\ Keys(host.v.o) = MapKeys(guest.e)

\* the document with every empty Array replaced by an empty Map
RECURSIVE EmptyArrayAsMap(_)
EmptyArrayAsMap(json) ==
    CASE json.t = "array" ->
            IF json.a = <<>> THEN JObj({})
            ELSE JArr([i \in 1..Len(json.a) |-> EmptyArrayAsMap(json.a[i])])
      [] json.t = "object" ->
            JObj({Entry(x.k, EmptyArrayAsMap(x.v)) : x \in json.o})
      [] OTHER -> json

\* C2: to_host(to_guest(v)) reproduces v, Null elements and Null map values
\* and digit-string keys included, but for empty Arrays, which come back as
\* empty Maps.
C2_RoundTrip ==
    op = "round_trip" => host = Ok(EmptyArrayAsMap(doc))

\* the document has no empty Array in it
RECURSIVE NoEmptyArray(_)
NoEmptyArray(json) ==
    CASE json.t = "array" ->
            json.a # <<>> /\ \A i \in 1..Len(json.a) : NoEmptyArray(json.a[i])
      [] json.t = "object" -> \A x \in json.o : NoEmptyArray(x.v)
      [] OTHER -> TRUE

\* wherever the guest value has an empty table, the document has an empty Map
RECURSIVE EmptyTablesAreMaps(_, _)
EmptyTablesAreMaps(lv, jv) ==
    IF lv.t # "table" THEN TRUE
    ELSE IF lv.e = {} THEN jv = JObj({})
    ELSE IF jv.t = "array"
    THEN \A i \in 1..Len(jv.a) :
            EmptyTablesAreMaps(TableGet(lv.e, LInt(i)), jv.a[i])
    ELSE /\ jv.t = "object"
         /\ \A x \in lv.e :
               x.k.t \in {"string", "integer"} =>
                  \E y \in jv.o :
                     y.k = KeyString(x.k) /\ EmptyTablesAreMaps(x.v, y.v)

\* C3: an empty guest table converts to an empty Map, never to an empty
\* Array, at the top level and wherever it is nested.
C3_EmptyTableIsMap ==
    (op \in {"to_host", "round_trip"} /\ host.st = "ok") =>
        EmptyTablesAreMaps(guest, host.v) /\ NoEmptyArray(host.v)

\* an empty table two tables deep has been converted
C3_Witness ==
    /\ op = "to_host"
    /\ guest = LTable({Entry(LInt(1), LTable({Entry(LInt(1), LTable({}))}))})
    /\ host = Ok(JArr(<<JArr(<<JObj({})>>)>>))

\* the guest value is, or holds at some depth, a float that is NaN or an
\* infinity
RECURSIVE HasNonFinite(_)
HasNonFinite(lv) ==
    CASE lv.t = "number" -> lv.s # ""
      [] lv.t = "table" -> \E x \in lv.e : HasNonFinite(x.k) \/ HasNonFinite(x.v)
      [] OTHER -> FALSE

\* C11: to_host of a guest float that is NaN or an infinity, at the top
\* level or nested in a table, fails with the NonFinite conversion error; no
\* other value, such as Null, is put in its place.
C11_NonFiniteFails ==
    (op = "to_host" /\ HasNonFinite(guest)) =>
        host.st = "err" /\ host.msg = "NonFinite"

\* a table holds itself at some depth
RECURSIVE IsCyclic(_)
IsCyclic(lv) ==
    CASE lv.t = "self" -> TRUE
      [] lv.t = "table" -> \E x \in lv.e : IsCyclic(x.v)
      [] OTHER -> FALSE

\* C12: to_host always terminates: the conversion of a guest table that
\* holds itself stops with the TooDeep conversion error, and no conversion
\* recurses until the call stack of the host is used up.
C12_ToHostTerminates ==
    op = "to_host" =>
        /\ host.st # "overflow"
        /\ IsCyclic(guest) => host.st = "err" /\ host.msg = "TooDeep"

---------------------------------------------------------------------------
(* Claims about the dynamic tool adapter.                                  *)

\* the document an argument text was written from, Null for a malformed one
DocOf(text) == from_str(text).v

\* the integer members a and b of a document, when it has both
IntPair(d) ==
    /\ d.t = "object"
    /\ \E x \in d.o : x.k = "a" /\ x.v.t = "int"
    /\ \E x \in d.o : x.k = "b" /\ x.v.t = "int"

Member(d, key) == (CHOOSE x \in d.o : x.k = key).v

\* C4: a call with the argument document v returns the serialization of
\* to_host(f(to_guest(v))), f being the tool's entry function; add called
\* with {"a":5,"b":3} returns {"result":8}, and integer arguments give an
\* integer sum.
C4_Pipeline ==
    \A i \in 1..Len(calls) :
        LET c == calls[i]
            v == DocOf(c.args)
            fv == GuestCall(tool.lua_code, json_to_lua(v), {})
            back == lua_to_json(fv.v)
        IN (tool.lua_code \in Bytecode /\ from_str(c.args).st = "ok") =>
              /\ (fv.st = "ok" /\ back.st = "ok") =>
                    c.res.st = "ok" /\ c.res.out = to_string(back.v)
              /\ (tool.lua_code = "add" /\ c.args = "{\"a\":5,\"b\":3}") =>
                    c.res.st = "ok" /\ c.res.out = "{\"result\":8}"
              /\ (tool.lua_code = "add" /\ IntPair(v)) =>
                    /\ c.res.st = "ok"
                    /\ c.res.out =
                          to_string(JObj({Entry("result",
                              JInt(Member(v, "a").n + Member(v, "b").n))}))

\* add has been called with {"a":5,"b":3} and has returned {"result":8}
C4_Witness ==
    /\ tool.lua_code = "add"
    /\ \E i \in 1..Len(calls) :
          /\ calls[i].args = "{\"a\":5,\"b\":3}"
          /\ calls[i].res.st = "ok"
          /\ calls[i].res.out = "{\"result\":8}"

\* what a call returns: all of its result but the globals of its Lua state
Returned(res) == <<res.st, res.out, res.prefix, res.cause>>

\* no call has seen a global an earlier call wrote: calls with the same
\* arguments returned the same, and the counter tool, which counts its
\* calls in a global, has always counted one
SameArgsSameResult ==
    /\ \A i, j \in 1..Len(calls) :
          calls[i].args = calls[j].args =>
             Returned(calls[i].res) = Returned(calls[j].res)
    /\ \A i \in 1..Len(calls) :
          (tool.lua_code = "counter" /\ calls[i].res.st = "ok") =>
             calls[i].res.out = "{\"count\":1}"

\* C5: over any sequence of calls of one tool, each result depends only on
\* that call's arguments, a global written by one call is not visible to a
\* later one, and no call changes the descriptor.
C5_Isolation == [](SameArgsSameResult) /\ [][tool' = tool]_vars

\* the counter tool has been called twice with the same arguments, the
\* first call has written its global, and both calls returned the same
C5_Witness ==
    /\ tool.lua_code = "counter"
    /\ Len(calls) >= 2
    /\ calls[1].args = calls[2].args
    /\ calls[1].res.st = "ok"
    /\ TableGet(lastLua, LStr("count")) = LInt(1)
    /\ Returned(calls[1].res) = Returned(calls[2].res)

\* the message prefix by which a ToolCallError names its stage
StagePrefix(stage) ==
    CASE stage = "load" -> "Failed to load Lua bytecode"
      [] stage = "parse" -> "Failed to parse args"
      [] stage = "convert-in" -> "Failed to convert args to Lua"
      [] stage = "call" -> "Lua function call failed"
      [] stage = "convert-out" -> "Failed to convert Lua result to JSON"
      [] stage = "serialize" -> "Failed to serialize result"

Pipeline == <<"load", "parse", "convert-in", "call", "convert-out", "serialize">>

\* C10: a failure at any stage of a call yields an error, never a success
\* and never the loss of the host; the error names the stage that failed,
\* which is the last stage that ran, the stages having run in pipeline
\* order; a guest runtime fault is a call-stage error with the guest's
\* message.
C10_StageErrors ==
    \A i \in 1..Len(calls) :
        LET r == calls[i].res
            n == Len(r.stages)
        IN /\ r.st \in {"ok", "err"}
           /\ r.stages = SubSeq(Pipeline, 1, n)
           /\ r.st = "ok" => n = Len(Pipeline)
           /\ r.st = "err" => r.prefix = StagePrefix(r.stages[n])
           /\ (tool.lua_code = "divide" /\ calls[i].args = "{\"value\":0}") =>
                 /\ r.st = "err"
                 /\ r.prefix = StagePrefix("call")
                 /\ r.cause = RuntimeError("Value cannot be zero")

---------------------------------------------------------------------------
(* Claims about the command registry.                                      *)

\* what an execute call returns
ExecReturned(res) == <<res.st, res.out, res.msg>>

\* C6: over any sequence of execute calls on one registry, the result of
\* each call depends only on the command's bytecode and the call's
\* argument map: globals written by an earlier execution do not influence
\* a later one.
C6_ExecuteIsolated ==
    \A i, j \in 1..Len(cmdLog) :
        (cmdLog[i].name = cmdLog[j].name /\ cmdLog[i].args = cmdLog[j].args) =>
            ExecReturned(cmdLog[i].res) = ExecReturned(cmdLog[j].res)

\* the names of the registry's Literal commands
LiteralNames == {x.k : x \in {y \in commands : y.v.kind = "String"}}

\* the template stored under a Literal name
Template(name) == (CHOOSE x \in commands : x.k = name).v.text

\* every execution of a Literal command returned its template
LiteralUnchanged ==
    \A i \in 1..Len(cmdLog) :
        cmdLog[i].name \in LiteralNames =>
            /\ cmdLog[i].res.st = "ok"
            /\ cmdLog[i].res.out = Template(cmdLog[i].name)

\* a step that executes a Literal command leaves the commands and the Lua
\* state of the registry as they were
LiteralFrame ==
    (Len(cmdLog') > Len(cmdLog) /\ cmdLog'[Len(cmdLog')].name \in LiteralNames) =>
        commands' = commands /\ cmdLua' = cmdLua

\* C16: execute on a Literal command returns the stored template unchanged
\* for every argument map, empty or not: no argument is put into it; and the
\* call does not change the registry.
C16_LiteralUnchanged == [](LiteralUnchanged) /\ [][LiteralFrame]_vars

\* the template with a placeholder in it has been executed with an argument
\* for the placeholder, after a Compiled command had written to the Lua state
C16_Witness ==
    /\ Len(cmdLog) >= 2
    /\ cmdLog[1].name = "visits"
    /\ cmdLog[2].name = "greet"
    /\ cmdLog[2].args = {Entry("1", "x")}
    /\ cmdLog[2].res.out = "say hello to $1"

\* the value an argument map has under a key, the default when it has none
ArgOr(args, key, default) ==
    IF \E x \in args : x.k = key THEN (CHOOSE x \in args : x.k = key).v
    ELSE default

\* C17: execute on a Compiled command hands the function a table with
\* exactly the entries of the argument map, an absent key reading as nil,
\* and coerces what it returns: a string as it is, nil to the empty string,
\* any other value to its debug text; a name the registry does not have
\* gives the not-found error.
C17_CompiledCoercion ==
    \A i \in 1..Len(cmdLog) :
        LET c == cmdLog[i]
        IN /\ c.name = "test" =>
                /\ c.res.st = "ok"
                /\ c.res.out = "run tests for " \o ArgOr(c.args, "file", "current file")
           /\ c.name = "count" =>
                /\ c.res.st = "ok"
                /\ c.res.out = "Integer(" \o NatToString(Cardinality(c.args)) \o ")"
           /\ c.name = "nothing" => c.res.st = "ok" /\ c.res.out = ""
           /\ c.name = "answer" => c.res.st = "ok" /\ c.res.out = "Integer(42)"
           /\ c.name \notin Keys(commands) =>
                /\ c.res.st = "err"
                /\ c.res.msg = "Command '" \o c.name \o "' not found"

\* the test command has been executed without and with its argument
C17_Witness ==
    /\ Len(cmdLog) >= 2
    /\ cmdLog[1].name = "test" /\ cmdLog[1].args = {}
    /\ cmdLog[1].res.out = "run tests for current file"
    /\ cmdLog[2].name = "test" /\ cmdLog[2].args = {Entry("file", "main.rs")}
    /\ cmdLog[2].res.out = "run tests for main.rs"

---------------------------------------------------------------------------
(* Claims about the command-line parser.                                   *)

\* the positions where a token of the line starts: a character that is not
\* white space, at the start of the line or after white space
TokenStarts(line) ==
    {i \in 1..Len(line) :
        line[i] \notin Whitespace /\ (i = 1 \/ line[i - 1] \in Whitespace)}

\* the token that starts at i: up to the next white space or the end
TokenAt(line, i) ==
    LET j == CHOOSE m \in i..Len(line) :
                /\ \A n \in i..m : line[n] \notin Whitespace
                /\ m = Len(line) \/ line[m + 1] \in Whitespace
    IN SubSeq(line, i, j)

\* the tokens that start at the positions S, in the order of the line
RECURSIVE TokensFrom(_, _)
TokensFrom(line, S) ==
    IF S = {} THEN <<>>
    ELSE LET i == CHOOSE m \in S : \A n \in S : m <= n
         IN <<TokenAt(line, i)>> \o TokensFrom(line, S \ {i})

\* the whitespace-separated tokens of the line
Tokens(line) == TokensFrom(line, TokenStarts(line))

HasEq(tok) == \E i \in 1..Len(tok) : tok[i] = "="

FirstEq(tok) ==
    CHOOSE i \in 1..Len(tok) : tok[i] = "=" /\ \A m \in 1..(i - 1) : tok[m] # "="

\* the 1-based ordinal of the positional token i among the positional
\* tokens after the name
Ordinal(toks, i) == Cardinality({j \in 2..i : ~HasEq(toks[j])})

\* the key and the value the i-th token stands for
ArgKey(toks, i) ==
    IF HasEq(toks[i]) THEN Text(SubSeq(toks[i], 1, FirstEq(toks[i]) - 1))
    ELSE NatToString(Ordinal(toks, i))

ArgValue(toks, i) ==
    IF HasEq(toks[i])
    THEN Text(SubSeq(toks[i], FirstEq(toks[i]) + 1, Len(toks[i])))
    ELSE Text(toks[i])

\* the line "test arg1 key=value arg2"
MixedLine ==
    Line(<<(<<"t", "e", "s", "t">>), (<<"a", "r", "g", "1">>),
           (<<"k", "e", "y", "=", "v", "a", "l", "u", "e">>),
           (<<"a", "r", "g", "2">>)>>,
         [lead |-> <<>>, sep |-> <<" ">>, trail |-> <<>>])

\* C13: the first token is the command name and never an argument; a later
\* token with a '=' is split at its first '=' into key and value, the value
\* keeping any further '='; a later token without '=' is stored under the
\* decimal string of its ordinal among the positional tokens only;
\* "test arg1 key=value arg2" gives {"1":"arg1","key":"value","2":"arg2"}.
C13_ArgumentMapping ==
    parsed.st = "ok" =>
        LET toks == Tokens(input)
            args == 2..Len(toks)
        IN /\ parsed.name = Text(toks[1])
           /\ Keys(parsed.args) = {ArgKey(toks, i) : i \in args}
           /\ \A i \in args :
                 (\A j \in args : j # i => ArgKey(toks, j) # ArgKey(toks, i)) =>
                    Entry(ArgKey(toks, i), ArgValue(toks, i)) \in parsed.args
           /\ input = MixedLine =>
                 parsed = ParseOk("test", {Entry("1", "arg1"),
                                           Entry("key", "value"),
                                           Entry("2", "arg2")})

\* "test arg1 key=value arg2" has been parsed
C13_Witness ==
    /\ input = MixedLine
    /\ parsed.st = "ok"
    /\ parsed.args = {Entry("1", "arg1"), Entry("key", "value"), Entry("2", "arg2")}

\* the line has no token
Blank(line) == \A i \in 1..Len(line) : line[i] \in Whitespace

\* C14: parse fails with the Empty error exactly when the line has no token,
\* being empty or all white space; a line with a token parses, and to what
\* the line with its tokens one space apart and nothing around them parses.
C14_EmptyIffNoTokens ==
    parsed.st # "none" =>
        /\ parsed.st = "err" <=> Blank(input)
        /\ parsed.st = "err" => parsed.msg = "Empty command"
        /\ parsed.st = "ok" =>
              parsed = parse_command_input(Join(Tokens(input), <<" ">>))

\* a line of white space only has been refused
C14_Witness ==
    /\ input = <<"\t", " ">>
    /\ parsed = ParseErr("Empty command")

\* C15: tokens that stand for the same key leave one entry for it, with the
\* value of the last of them in the line, be they two named tokens or a
\* named token with a digit-string key and a positional one; a positional
\* token that overwrote or was overwritten still counts in the ordinals.
C15_DuplicateKeysOverwrite ==
    parsed.st = "ok" =>
        LET toks == Tokens(input)
            args == 2..Len(toks)
            Same(i) == {j \in args : ArgKey(toks, j) = ArgKey(toks, i)}
            Last(i) == CHOOSE j \in Same(i) : \A m \in Same(i) : m <= j
        IN /\ \A x, y \in parsed.args : x.k = y.k => x = y
           /\ \A i \in args :
                 Same(i) # {i} =>
                    Entry(ArgKey(toks, i), ArgValue(toks, Last(i))) \in parsed.args

\* "test arg1 1=x arg2" has been parsed: 1=x overwrote the first positional
\* token, and the second one is still stored under "2"
C15_Witness ==
    /\ input = Line(<<(<<"t", "e", "s", "t">>), (<<"a", "r", "g", "1">>),
                      (<<"1", "=", "x">>), (<<"a", "r", "g", "2">>)>>,
                    [lead |-> <<>>, sep |-> <<" ">>, trail |-> <<>>])
    /\ parsed = ParseOk("test", {Entry("1", "x"), Entry("2", "arg2")})

---------------------------------------------------------------------------
(* Claims about the loaders.                                               *)

\* the value is a Lua string that is text
IsText(val) == val.t = "string" /\ val.n = 0

\* the statement is a registration that lacks nothing: a table with a name
\* and a description that are strings, parameters that are a table and an
\* entry that is a function
Sound(stmt) ==
    /\ stmt.kind = "register_tool"
    /\ stmt.arg.t = "table"
    /\ IsText(TableGet(stmt.arg.e, LStr("name")))
    /\ IsText(TableGet(stmt.arg.e, LStr("description")))
    /\ TableGet(stmt.arg.e, LStr("parameters")).t = "table"
    /\ TableGet(stmt.arg.e, LStr("entry")).t = "function"

\* the name and the entry function of every sound registration of a
\* manifest, in the order of the manifest
SoundTools(script) ==
    LET regs == SelectSeq(script, Sound)
    IN [i \in 1..Len(regs) |->
          <<TableGet(regs[i].arg.e, LStr("name")).s,
            TableGet(regs[i].arg.e, LStr("entry")).s>>]

\* the name and the bytecode of every descriptor, in order
Described(ts) == [i \in 1..Len(ts) |-> <<ts[i].name, ts[i].lua_code>>]

\* C18: when a manifest holds several registrations and one of them is
\* faulty (a name, description, parameters or entry that is missing or of
\* the wrong type, or an entry that does not compile), load_tools still
\* returns the descriptors of all the other registrations instead of
\* failing the whole load.
C18_LoaderResilience ==
    (loadedTools.st # "none" /\ toolsFile.exists) =>
        /\ loadedTools.st = "ok"
        /\ Described(loadedTools.tools) = SoundTools(toolsFile.script)

\* C19: when the manifest path does not exist load_tools returns Ok with an
\* empty list, whereas a missing config file makes the config loader fail
\* with the error "Configuration file not found" and return no settings.
C19_MissingFiles ==
    /\ (loadedTools.st # "none" /\ ~toolsFile.exists) =>
          loadedTools = LoadOk(<<>>)
    /\ (loadedConfig.st # "none" /\ ~configFile.exists) =>
          /\ loadedConfig.st = "err"
          /\ loadedConfig.msg =
                "Configuration file not found: .kota/config.lua"
                \o "\nPlease create a .kota/config.lua file. "
          /\ loadedConfig.config = NoSettings

\* both loaders have run in a directory that has neither file
C19_Witness ==
    /\ ~toolsFile.exists /\ loadedTools.st = "ok"
    /\ ~configFile.exists /\ loadedConfig.st = "err"

\* C20: load_tools returns one descriptor for each successful register_tool
\* call, in the order of the calls, two calls with the same name giving two
\* descriptors; and every descriptor it returns has a name that is not
\* empty.
C20_DescriptorsInOrder ==
    loadedTools.st = "ok" =>
        /\ Len(loadedTools.tools) = Len(SoundTools(toolsFile.script))
        /\ Described(loadedTools.tools) = SoundTools(toolsFile.script)
        /\ \A i \in 1..Len(loadedTools.tools) : loadedTools.tools[i].name # ""

---------------------------------------------------------------------------
(* Claims about the tool registry.                                         *)

\* each name has at most one entry
OneEntryPerName == \A x, y \in tools : x.k = y.k => x = y

\* after register_tool the name has the tool just registered, and execute
\* runs the capability the name has
LastWriteWins ==
    /\ lastOp.op = "register_tool" =>
          ToolRegistry_get_tool(tools, lastOp.name) = lastOp.found
    /\ (lastOp.op = "execute" /\ lastOp.st = "ok") =>
          /\ invoked # <<>>
          /\ ToolRegistry_get_tool(tools, lastOp.name) = {invoked[Len(invoked)]}

\* a register_tool step leaves the entries of the other names alone
RegisterFrame ==
    lastOp'.op = "register_tool" =>
        \A name \in LookupNames \ {lastOp'.name} :
            ToolRegistry_get_tool(tools', name) = ToolRegistry_get_tool(tools, name)

\* C7: after any sequence of register operations each name maps to at most
\* one capability, get and invoke use the capability of the latest register
\* call for the name, which replaces the earlier one, and registering a
\* name changes the entry of no other name.
C7_LastWriteWins == [](OneEntryPerName /\ LastWriteWins) /\ [][RegisterFrame]_vars

\* read_file has been registered a second time, with another tool, next to
\* a tool of another name
C7_Witness ==
    /\ lastOp.op = "register_tool"
    /\ lastOp.found = {KotaTool("read_file", 2)}
    /\ invoked = <<KotaTool("read_file", 1)>>
    /\ ToolRegistry_get_tool(tools, "bash") = {KotaTool("bash", 1)}

\* C8: list_tools and get_definitions return the registered names in the
\* order in which they were registered.
C8_ListInRegistrationOrder ==
    lastOp.op \in {"list_tools", "get_definitions"} => lastOp.names = regOrder

\* an execute step for a name without an entry fails with "Tool not found",
\* runs no capability and leaves the registry as it was
NotFoundStep ==
    (lastOp'.op = "execute" /\ ~ToolRegistry_has_tool(tools, lastOp'.name)) =>
        /\ lastOp'.st = "err"
        /\ lastOp'.msg = "Tool not found: " \o lastOp'.name
        /\ lastOp'.found = {}
        /\ invoked' = invoked
        /\ tools' = tools

\* C9: execute for a name that is not registered, because it never was or
\* was unregistered or cleared, returns the not-found error, invokes no
\* capability and leaves the registry unchanged.
C9_NotFound == [][NotFoundStep]_vars

\* execute has failed for read_file, which had been registered and run
\* before it was unregistered, while another tool is still registered
C9_Witness ==
    /\ lastOp.op = "execute"
    /\ lastOp.name = "read_file"
    /\ lastOp.st = "err"
    /\ invoked = <<KotaTool("read_file", 1)>>
    /\ Keys(tools) = {"bash"}

---------------------------------------------------------------------------
(* Claims about the config loader.                                         *)

\* the library functions a script calls, kota.setup and os.getenv aside
LibCalls(script) ==
    {script[i].kind : i \in 1..Len(script)}
        \ {"setup", "register_tool", "syntax"}

\* C21: the configuration runs in an environment whose one capability
\* beyond computation is the read-only lookup of environment variables: no
\* load creates or removes a file, starts a process or changes the
\* environment, and a script that calls into io or os for any of that
\* finds no such function and fails.
C21_ConfigSandbox ==
    loadedConfig.st # "none" =>
        /\ hostFiles = WorkFiles
        /\ spawned = <<>>
        /\ (configFile.exists /\ LibCalls(configFile.script) # {}) =>
                loadedConfig.st = "err"

\* the number of kota.setup calls in a script
SetupCalls(script) == Len(SelectSeq(script, LAMBDA st : st.kind = "setup"))

\* C22: a load returns settings only for a script that called kota.setup
\* exactly once: a script that never called it fails the load, and so does
\* one that called it more than once.
C22_SetupExactlyOnce ==
    (loadedConfig.st # "none" /\ configFile.exists) =>
        /\ loadedConfig.st = "ok" => SetupCalls(configFile.script) = 1
        /\ SetupCalls(configFile.script) = 0 =>
              (loadedConfig.st = "err" /\ loadedConfig.config = NoSettings)

\* the argument of the one kota.setup call of a script
SetupDoc(script) ==
    (CHOOSE st \in {script[i] : i \in 1..Len(script)} : st.kind = "setup").arg

\* the document supplies the field: it has it, and where it reads it from
\* the environment the variable is set
Supplies(d, field) ==
    \E x \in d.e :
        /\ x.k = LStr(field)
        /\ x.v.t = "getenv" => \E y \in hostEnv : y.k = x.v.s

\* the string the document supplies for the field
Supplied(d, field) ==
    LET x == CHOOSE x \in d.e : x.k = LStr(field)
    IN IF x.v.t = "getenv" THEN (CHOOSE y \in hostEnv : y.k = x.v.s).v
       ELSE x.v.s

\* the list tools.<field> of the document as the script wrote it, none
\* being the empty list
ToolList(d, field) ==
    IF ~Supplies(d, "tools") THEN <<>>
    ELSE LET tools_ == (CHOOSE x \in d.e : x.k = LStr("tools")).v
         IN IF ~Supplies(tools_, field) THEN <<>>
            ELSE LET list == (CHOOSE x \in tools_.e : x.k = LStr(field)).v
                 IN [i \in 1..Cardinality(list.e) |->
                       (CHOOSE x \in list.e : x.k = LInt(i)).v.s]

\* C23: of a script that calls kota.setup once, every field the document
\* supplies has the document's value and every other field its default
\* (a model, api_base "https://api.openai.com/v1", temperature 0.7, no
\* enabled and no disabled tools), whatever the other fields are; the two
\* tool lists are in the order of the script's lists.
C23_DefaultsAndIndependence ==
    (loadedConfig.st = "ok" /\ SetupCalls(configFile.script) = 1) =>
        LET d == SetupDoc(configFile.script)
            c == loadedConfig.config
        IN /\ KotaConfig_default.model # ""
           /\ c.model = IF Supplies(d, "model") THEN Supplied(d, "model")
                        ELSE KotaConfig_default.model
           /\ c.api_key = IF Supplies(d, "api_key") THEN Supplied(d, "api_key")
                          ELSE ""
           /\ c.api_base = IF Supplies(d, "api_base")
                           THEN Supplied(d, "api_base")
                           ELSE "https://api.openai.com/v1"
           /\ c.temperature =
                 IF Supplies(d, "temperature")
                 THEN SomeF64(F64(5 * (CHOOSE x \in d.e :
                                         x.k = LStr("temperature")).v.n, ""))
                 ELSE SomeF64(F64(7, ""))
           /\ c.enabled_tools = ToolList(d, "enabled")
           /\ c.disabled_tools = ToolList(d, "disabled")

\* a document that supplies the disabled tools and the api_base and
\* nothing else has been loaded
C23_Witness ==
    /\ loadedConfig.st = "ok"
    /\ SetupCalls(configFile.script) = 1
    /\ ~Supplies(SetupDoc(configFile.script), "model")
    /\ loadedConfig.config.model = "gpt-4o"
    /\ loadedConfig.config.api_base = "http://localhost:11434/v1"
    /\ loadedConfig.config.enabled_tools = <<>>
    /\ loadedConfig.config.disabled_tools = <<"delete_file", "bash">>

\* the fields a document reads from the environment
EnvFields(d) == {x \in d.e : x.v.t = "getenv"}

\* what the load made of the field of that name
ConfigField(c, name) ==
    CASE name = LStr("model") -> c.model
      [] name = LStr("api_key") -> c.api_key
      [] name = LStr("api_base") -> c.api_base

\* a script of kota.setup calls with a table and of nothing else
OnlySetup(script) ==
    /\ script # <<>>
    /\ \A i \in 1..Len(script) :
          script[i].kind = "setup" /\ script[i].arg.t = "table"

\* the state part of C24
EnvLookup ==
    (loadedConfig.st # "none" /\ configFile.exists
        /\ OnlySetup(configFile.script)) =>
        /\ loadedConfig.st = "ok"
        /\ \A x \in EnvFields(configFile.script[Len(configFile.script)].arg) :
              ConfigField(loadedConfig.config, x.k) =
                 IF \E y \in hostEnv : y.k = x.v.s
                 THEN (CHOOSE y \in hostEnv : y.k = x.v.s).v
                 ELSE ConfigField(KotaConfig_default, x.k)

\* C24: a configuration that reads a variable the host environment does
\* not set gets nil, the load completes and the field keeps its default;
\* one that reads a set variable gets the host's value; and no load
\* changes the host environment.
C24_EnvShim == [](EnvLookup) /\ [][hostEnv' = hostEnv]_vars

\* a load has read KOTA_MODEL, which is unset, and KOTA_KEY, which is set
C24_Witness ==
    /\ loadedConfig.st = "ok"
    /\ OnlySetup(configFile.script)
    /\ EnvFields(configFile.script[Len(configFile.script)].arg) # {}
    /\ hostEnv = {Entry("KOTA_KEY", "sk-env")}
    /\ loadedConfig.config.model = "gpt-4o"
    /\ loadedConfig.config.api_key = "sk-env"

\* the commands mapping of the document, none being the empty one
DeclaredCommands(d) ==
    IF d.t = "table" /\ \E x \in d.e : x.k = LStr("commands")
    THEN (CHOOSE x \in d.e : x.k = LStr("commands")).v.e
    ELSE {}

\* C25: a registry built from a loaded configuration has a command for
\* exactly the names the script's commands mapping declares: a string
\* entry as CommandDef::String with that text, a function entry as
\* CommandDef::Function with the function's bytecode.
C25_CommandsCaptured ==
    (cmdLua # {} /\ SetupCalls(configFile.script) = 1) =>
        LET declared == DeclaredCommands(SetupDoc(configFile.script))
        IN /\ \A name \in {"fix", "test", "missing"} :
                 CommandRegistry_has_command(commands, name)
                     <=> \E x \in declared : x.k = LStr(name)
           /\ \A x \in declared :
                 CommandsGet(commands, x.k.s) =
                    {IF x.v.t = "function" THEN CommandDef_Function(x.v.s)
                     ELSE CommandDef_String(x.v.s)}

\* the names has_tool holds of
Registered(m) == {n \in LookupNames : ToolRegistry_has_tool(m, n)}

\* the queries of one registry agree with one another
QueriesAgree ==
    /\ \A n \in LookupNames :
          /\ ToolRegistry_has_tool(tools, n)
                <=> ToolRegistry_get_tool(tools, n) # {}
          /\ Cardinality(ToolRegistry_get_tool(tools, n)) <= 1
    /\ lastOp.op = "list_tools" =>
          /\ \A i, j \in 1..Len(lastOp.names) :
                lastOp.names[i] = lastOp.names[j] => i = j
          /\ {lastOp.names[i] : i \in 1..Len(lastOp.names)} = Registered(tools)
    /\ ToolRegistry_len(tools) = Cardinality(Registered(tools))
    /\ ToolRegistry_is_empty(tools) <=> ToolRegistry_len(tools) = 0
    /\ lastOp.op = "clear" => ToolRegistry_is_empty(tools)

\* an unregister_tool step returns the entry the name had, removes it and
\* leaves the entries of the other names alone
UnregisterStep ==
    lastOp'.op = "unregister_tool" =>
        /\ lastOp'.found = ToolRegistry_get_tool(tools, lastOp'.name)
        /\ ~ToolRegistry_has_tool(tools', lastOp'.name)
        /\ \A n \in LookupNames \ {lastOp'.name} :
              ToolRegistry_get_tool(tools', n) = ToolRegistry_get_tool(tools, n)
        /\ ~ToolRegistry_has_tool(tools, lastOp'.name) =>
              (lastOp'.found = {} /\ tools' = tools)

\* C26: after any sequence of register_tool, unregister_tool and clear,
\* has_tool(n), get_tool(n) being Some and n occurring in list_tools()
\* are one condition, list_tools() names no tool twice, len() is the
\* number of registered names and is_empty() is len() = 0; unregister_tool
\* returns and removes the entry of its name only, changing nothing when
\* there is none, and clear leaves the registry empty.
C26_RegistryConsistent == [](QueriesAgree) /\ [][UnregisterStep]_vars

\* read_file, registered twice, has been unregistered and bash is left
C26_Witness ==
    /\ lastOp.op = "unregister_tool"
    /\ lastOp.found = {KotaTool("read_file", 2)}
    /\ ToolRegistry_len(tools) = 1
    /\ ToolRegistry_has_tool(tools, "bash")
    /\ ~ToolRegistry_has_tool(tools, "read_file")

---------------------------------------------------------------------------
(* Claims about the plan.                                                  *)

\* the text shows the task of the call with the status the call gave it
ShowsStatus(text, args) ==
    \E i \in 1..Len(text.lines) :
        /\ text.lines[i].id = args.task_id
        /\ \E e \in parse_status(args.status) :
              text.lines[i].icon = StatusIcon(e)

\* an update_status call that returned success names its task in its
\* message and shows it with its new status; one whose status does not
\* parse failed
StatusOutcome ==
    planOut.args.action = "update_status" =>
        /\ planOut.res.st = "ok" =>
              /\ planOut.res.message =
                    "Updated task [" \o NatToString(planOut.args.task_id)
                        \o "] to " \o planOut.args.status
              /\ ShowsStatus(planOut.res.plan, planOut.args)
        /\ parse_status(planOut.args.status) = {} => planOut.res.st = "err"

\* an update_status call returns an error when there is no plan or no
\* task of that id, and a call that fails leaves the plan as it was
StatusStep ==
    /\ (planPc.at = "update_status" /\ planPc'.at = "idle"
           /\ FindTask(current_plan, planPc.args.task_id) = {}) =>
          planOut'.res.st = "err"
    /\ (planOut' # planOut /\ planOut'.args.action = "update_status"
           /\ parse_status(planOut'.args.status) = {}) =>
          current_plan' = current_plan

\* C27: update_status fails with an InvalidInput error when there is no
\* active plan or when no task of the active plan has the id; it reports
\* "Updated task [id] to status" only when a task of that id has been given
\* the status; and a status string that is none of the known ones fails
\* and leaves the plan as it was.
C27_UpdateStatusFails == [](StatusOutcome) /\ [][StatusStep]_vars

\* the text shows what the call did: the task it added, or the status it
\* gave
ShowsChange(text, args) ==
    IF args.action = "add_task"
    THEN \E i \in 1..Len(text.lines) :
            /\ text.lines[i].id = args.task_id
            /\ text.lines[i].description = args.description
            /\ text.lines[i].dependencies = args.dependencies
    ELSE ShowsStatus(text, args)

\* a call whose update was made returns success with a plan that shows it
ReturnStep ==
    (planPc.at # "idle" /\ planPc'.at = "idle" /\ planPc.success
        /\ planPc.found) =>
        /\ planOut'.res.st = "ok"
        /\ ShowsChange(planOut'.res.plan, planPc.args)

\* C28: with another holder using the same manager, an add_task or
\* update_status call whose update was made returns success with a plan
\* text that shows the change; the other holder clearing or replacing the
\* plan between the update and get_plan makes the call neither panic nor
\* report a plan without the change.
C28_SharedManager == [](planOut.res.st # "panic") /\ [][ReturnStep]_vars

\* the tasks the claim has get_next_tasks return
Available(plan) ==
    SelectSeq(plan.tasks, LAMBDA t :
        /\ t.status = "Pending"
        /\ \A k \in 1..Len(t.dependencies) :
              \E i \in 1..Len(plan.tasks) :
                  /\ plan.tasks[i].id = t.dependencies[k]
                  /\ plan.tasks[i].status = "Completed")

\* C29: the ids of the tasks are strictly increasing in the order the
\* tasks were added and next_id is above every one of them; get_next_tasks
\* returns, in that order, the Pending tasks whose every dependency is the
\* id of a Completed task of the plan, and so no task that depends on an
\* id no task has or on itself.
C29_PlanScheduling ==
    current_plan.some =>
        LET tasks_ == current_plan.tasks
            next == Plan_get_next_tasks(current_plan)
        IN /\ \A i, j \in 1..Len(tasks_) : i < j => tasks_[i].id < tasks_[j].id
           /\ \A i \in 1..Len(tasks_) : tasks_[i].id < current_plan.next_id
           /\ next = Available(current_plan)
           /\ \A i \in 1..Len(next) :
                 \A k \in 1..Len(next[i].dependencies) :
                     /\ next[i].dependencies[k] # next[i].id
                     /\ \E j \in 1..Len(tasks_) :
                           tasks_[j].id = next[i].dependencies[k]

\* the first task is Completed and the second, which depends on it, is the
\* one next task, and the tool has shown so
C29_Witness ==
    /\ current_plan.some
    /\ Len(current_plan.tasks) = 2
    /\ current_plan.tasks[1].status = "Completed"
    /\ current_plan.tasks[2].dependencies = <<1>>
    /\ Plan_get_next_tasks(current_plan) = <<current_plan.tasks[2]>>
    /\ planOut.args.action = "show"
    /\ planOut.res.plan.next = <<[id |-> 2, description |-> "write tests"]>>

---------------------------------------------------------------------------
(* Claims about the skill manager.                                         *)

\* the active skill is none or the name of a skill of the manager, which
\* get_active_skill then returns
ActiveIsKnown ==
    /\ Cardinality(active_skill) <= 1
    /\ \A name \in active_skill :
          /\ \E x \in skills : x.k = name
          /\ SkillManager_get_active_skill(skills, active_skill)
                = HashMap_get(skills, name)

\* activate_skill fails for a name the manager has no skill of and then
\* leaves the active skill alone; a remove_skill that removes the active
\* skill leaves none active, and one that removes another skill, or fails,
\* leaves the active skill alone
SkillStep ==
    /\ skillRet'.op = "activate_skill" =>
          IF \E x \in skills : x.k = skillRet'.name
          THEN skillRet'.st = "ok" /\ active_skill' = {skillRet'.name}
          ELSE skillRet'.st = "err" /\ active_skill' = active_skill
    /\ (skillRet'.op = "remove_skill" /\ skillRet'.st = "ok") =>
          /\ ~\E x \in skills' : x.k = skillRet'.name
          /\ active_skill' = IF active_skill = {skillRet'.name} THEN {}
                             ELSE active_skill
    /\ (skillRet'.op = "remove_skill" /\ skillRet'.st = "err") =>
          (skills' = skills /\ active_skill' = active_skill)

\* C30: after any sequence of add_skill, activate_skill, deactivate_skill
\* and remove_skill the active skill is none or the name of a skill of the
\* manager; activate_skill of an unknown name returns an error and leaves
\* the active skill as it was; removing the active skill deactivates it,
\* and removing another skill leaves the active skill as it was.
C30_ActiveSkill == [](ActiveIsKnown) /\ [][SkillStep]_vars

\* debug has been removed while code-review, activated before, is active
C30_Witness ==
    /\ skillRet = SkillRet("remove_skill", "debug", "ok", "")
    /\ active_skill = {"code-review"}
    /\ SkillManager_get_active_skill(skills, active_skill)
          = {Skill("code-review", "Code review and quality analysis")}

====
